---- MODULE Spec2Model ----
(***************************************************************************)
(* A model of the acquisition pipeline of src/yc_scraper_robust.py:        *)
(* RobustYCScraper.scrape_companies, its scroll loop, Pass 1 (capture),    *)
(* Pass 2 (enrichment) and the URL normalization they use.                 *)
(*                                                                         *)
(* Strings are sequences of tokens.  A token is one character ("/", "?",   *)
(* "a", ...) or one of the fixed words Origin, OtherOrigin, "companies",   *)
(* which the code only ever tests as a whole.                              *)
(***************************************************************************)
EXTENDS Integers, Sequences, FiniteSets, TLC

\* ------------------------------------------------------------------ bounds

\* longest free tail of a raw href given to the normalizer
MaxTail == 4

\* most anchors on a listing page whose DOM changes freely
MaxListing == 2

\* most links in a list given to Pass 1
MaxLinks == 3

\* the page heights the browser may report are 1..MaxHeight
MaxHeight == 2

\* the links of the long listing whose link count settles
ScenarioLinks == 47
\* most anchors to profiles on a detail page
MaxAnchors == 2

\* most paragraphs on a detail page
MaxParagraphs == 2

\* ----------------------------------------------------------------- strings

Origin == "https://www.ycombinator.com"
OtherOrigin == "https://example.com"
CompaniesPath == <<"/", "companies", "/">>

\* the characters of the model alphabet that [a-z0-9\-] accepts
SlugChars == {"a", "b", "c", "1", "-"}

\* Python's None, where a string was expected
None == <<"<None>">>

\* s.startswith(p)
StartsWith(s, p) == Len(s) >= Len(p) /\ SubSeq(s, 1, Len(p)) = p

\* p in s  (substring test)
Contains(s, p) ==
    \E k \in 1..(Len(s) - Len(p) + 1) : SubSeq(s, k, k + Len(p) - 1) = p

\* s.rstrip('/')
RECURSIVE RStripSlash(_)
RStripSlash(s) ==
    IF Len(s) > 0 /\ s[Len(s)] = "/" THEN RStripSlash(SubSeq(s, 1, Len(s) - 1)) ELSE s

\* re.sub(r"[#?].*$", "", s): '.' stops at a newline and '$' matches at the
\* end or before a final newline, so the match starts at the leftmost '#' or
\* '?' that no newline other than a final one follows.
StripQueryFragment(s) ==
    LET P == {p \in 1..Len(s) :
                 /\ s[p] \in {"#", "?"}
                 /\ \A q \in (p + 1)..Len(s) : s[q] = "\n" => q = Len(s)}
    IN IF P = {} THEN s
       ELSE LET p == CHOOSE x \in P : \A y \in P : x <= y
            IN SubSeq(s, 1, p - 1) \o
               (IF p < Len(s) /\ s[Len(s)] = "\n" THEN <<"\n">> ELSE <<>>)

\* '$' of re.match: the pattern may end before one final newline
BeforeFinalNewline(s) ==
    IF Len(s) > 0 /\ s[Len(s)] = "\n" THEN SubSeq(s, 1, Len(s) - 1) ELSE s

\* https://www\.ycombinator\.com/companies/[a-z0-9\-]+
IsProfileUrl(s) ==
    /\ Len(s) >= 5
    /\ SubSeq(s, 1, 4) = <<Origin>> \o CompaniesPath
    /\ \A k \in 5..Len(s) : s[k] \in SlugChars

\* re.match(r"^https://www\.ycombinator\.com/companies/[a-z0-9\-]+$", url)
MatchStrict(url) == IsProfileUrl(url) \/ IsProfileUrl(BeforeFinalNewline(url))

\* re.match(r"^https://www\.ycombinator\.com/companies/[a-z0-9\-]+/?$", href)
MatchLoose(href) ==
    \E s \in {href, BeforeFinalNewline(href)} :
        \/ IsProfileUrl(s)
        \/ Len(s) > 0 /\ s[Len(s)] = "/" /\ IsProfileUrl(SubSeq(s, 1, Len(s) - 1))

\* --------------------------------------------------- Pass 1 normalization

\* a mutation: the origin is prepended whether or not the url is relative
MakeAbsoluteAlways(url) == <<Origin>> \o url

\* if url.startswith('/'): url = f"https://www.ycombinator.com{url}"
MakeAbsolute(url) == IF StartsWith(url, <<"/">>) THEN <<Origin>> \o url ELSE url

\* url = re.sub(r"[#?].*$", "", url).rstrip('/') on the absolute url
NormalizeUrl(url) == RStripSlash(StripQueryFragment(MakeAbsolute(url)))

\* the normalization of Pass 1 as a function: the url it yields and whether
\* the record-path pattern accepts it
Normalize(raw) ==
    LET url == NormalizeUrl(raw) IN [accepted |-> MatchStrict(url), url |-> url]

\* ------------------------------------------------------------------- state

VARIABLES
    pc,               \* where the run is: "start", "scroll", "collect", "pass1",
                      \* "pass2", "done"; "norm" while only the normalizer runs
    config,           \* self.config
    listing,          \* the anchors of the listing page, in document order
    mounted,          \* the indices of listing that are in the DOM right now
    page_height,      \* document.body.scrollHeight right now
    heights,          \* the heights the page can take when it is scrolled
    script,           \* the DOM snapshots a scripted page shows next, <<>> when the
                      \* DOM changes freely
    last_height,      \* _scroll_to_load_all: last_height
    scroll_attempts,  \* _scroll_to_load_all: scroll_attempts
    stable_rounds,    \* _scroll_to_load_all: stable_rounds
    seen_hrefs,       \* _scroll_to_load_all: seen_hrefs
    rounds,           \* the rounds of the scroll loop run so far
    history,          \* len(seen_hrefs) before the first round and after each round,
                      \* the last required_stable_rounds + 1 values of it
    discovered,       \* seen_hrefs when the scroll loop ended
    scroll_error,     \* whether _scroll_to_load_all raised
    company_links,    \* scrape_companies: company_links (each handle's anchor)
    link_i,           \* _first_pass_capture_all: the links processed so far
    seen_urls,        \* _first_pass_capture_all: seen_urls
    counts,           \* _first_pass_capture_all / _second_pass_enrich_data locals
    companies,        \* self.companies
    session_stats,    \* self.session_stats
    visited,          \* _second_pass_enrich_data: the records visited so far
    outcomes,         \* what really happened at each visit, in visit order
    checkpoint,       \* the records in the csv progress file, <<>> while none is written
    saves,            \* the number of writes of the progress files that returned
    storage,          \* how a write of the progress files can end: "written",
                      \* "refused" (it raises before the csv file is written),
                      \* "partial" (it raises after, on the json file)
    norm,             \* the normalizer's input and its two results
    soup,             \* the parsed detail page handed to a field extractor
    extracted,        \* what the field extractor returned, <<>> before it ran
    research          \* CompanyResearcher.research_company: its tasks and report

envVars == <<listing, mounted, page_height, heights, storage>>
scrollVars == <<last_height, scroll_attempts, stable_rounds, seen_hrefs, rounds, history, discovered,
               scroll_error>>
pass1Vars == <<company_links, link_i, seen_urls>>
pass2Vars == <<visited, outcomes>>
dataVars == <<companies, session_stats, counts, checkpoint, saves>>
extractVars == <<soup, extracted, research>>
vars == <<pc, config, envVars, script, scrollVars, pass1Vars, pass2Vars, dataVars, norm,
          extractVars>>

\* no field extractor and no research is running
ExtractIdle == soup = <<>> /\ extracted = <<>> /\ research = <<>>

\* ------------------------------------------------- the normalizer, alone

TailTokens == {"a", "-", "A", "/", "?", "#", "\n"}
Tails == UNION {[1..n -> TailTokens] : n \in 0..MaxTail}
Prefixes == {<<>>, CompaniesPath, <<Origin>> \o CompaniesPath,
             <<OtherOrigin>> \o CompaniesPath}
RawHrefs == {p \o t : p \in Prefixes, t \in Tails}

NoResult == [accepted |-> FALSE, url |-> <<>>]

\* ------------------------------------------------------------ construction

\* __init__: self.config (the values the pipeline reads)
DefaultConfig ==
    [chunk_size |-> 3, scroll_timeout |-> 60, min_companies_expected |-> 100,
     target_companies |-> 200, progress_save_interval |-> 10]

\* a configuration with small values, for the loop and the passes run on
\* their own with a short listing or list
SmallConfig ==
    [chunk_size |-> 2, scroll_timeout |-> 2, min_companies_expected |-> 1,
     target_companies |-> 2, progress_save_interval |-> 2]

Configs == {DefaultConfig, SmallConfig}

\* __init__: self.session_stats (ended: end_time is no longer None)
InitialStats ==
    [total_processed |-> 0, successful_captures |-> 0, successful_enrichments |-> 0,
     errors |-> 0, skipped |-> 0, ended |-> FALSE]

\* the counters local to Pass 1 and Pass 2, before either has run
InitialCounts ==
    [processed_count |-> 0, skipped_count |-> 0, error_count |-> 0,
     chunk_num |-> 0, total_chunks |-> 0, enriched_count |-> 0, enrich_errors |-> 0]

\* the scraper right after __init__, nothing scraped
Constructed ==
    /\ companies = <<>>
    /\ session_stats = InitialStats
    /\ counts = InitialCounts
    /\ checkpoint = <<>>
    /\ saves = 0
    /\ link_i = 0 /\ seen_urls = {}
    /\ visited = 0 /\ outcomes = <<>>
    /\ last_height = 0 /\ scroll_attempts = 0 /\ stable_rounds = 0
    /\ seen_hrefs = {} /\ rounds = 0 /\ history = <<>> /\ discovered = {}
    /\ scroll_error = FALSE

\* every write of the progress files succeeds
Writable == storage = {"written"}

\* no link is collected yet
NoLinks == company_links = <<>>

\* no listing page is open
NoPage == listing = <<>> /\ mounted = {} /\ page_height = 0 /\ heights = {} /\ script = <<>>

\* --------------------------------------------------------- the scroll loop

required_stable_rounds == 3

\* 'ycombinator.com/companies/' in href
ContainsYcCompanies(href) ==
    \E k \in 1..(Len(href) - 3) :
        href[k] = Origin /\ SubSeq(href, k + 1, k + 3) = CompaniesPath

\* href.split('ycombinator.com/')[-1]
AfterLastYc(href) ==
    LET K == {k \in 1..(Len(href) - 1) : href[k] = Origin /\ href[k + 1] = "/"}
    IN IF K = {} THEN href
       ELSE LET k == CHOOSE x \in K : \A y \in K : y <= x
            IN SubSeq(href, k + 2, Len(href))

\* the paths one anchor's href adds to new_hrefs (none or one)
ScrollHref(href) ==
    IF href # <<>> /\ href # None /\ Contains(href, CompaniesPath)
    THEN IF StartsWith(href, CompaniesPath) THEN {href}
         ELSE IF ContainsYcCompanies(href) THEN {<<"/">> \o AfterLastYc(href)}
         ELSE {}
    ELSE {}

\* page.query_selector_all("a[href*='/companies/']"): the mounted anchors whose
\* href contains /companies/, in document order
RECURSIVE SelectFrom(_, _, _)
SelectFrom(anchors, shown, k) ==
    IF k > Len(anchors) THEN <<>>
    ELSE (IF k \in shown /\ anchors[k].href # None
             /\ Contains(anchors[k].href, CompaniesPath)
          THEN <<anchors[k]>> ELSE <<>>) \o SelectFrom(anchors, shown, k + 1)

QueryCompanyAnchors(anchors, shown) == SelectFrom(anchors, shown, 1)

\* the hrefs collected in one round
NewHrefs(anchors, shown) ==
    LET found == QueryCompanyAnchors(anchors, shown)
    IN UNION {ScrollHref(found[k].href) : k \in 1..Len(found)}

\* a mutation: every round counts as stable
StableAfterAlways(stable, prev_count, curr_count) == stable + 1

\* if curr_count == prev_count: stable_rounds += 1 / else: stable_rounds = 0
StableAfter(stable, prev_count, curr_count) ==
    IF curr_count = prev_count THEN stable + 1 ELSE 0

\* a mutation: the loop goes on when the target is reached
TargetReachedNever(curr_count, target) == FALSE

\* line 205: if curr_count >= self.config['target_companies']
TargetReached(curr_count, target) == curr_count >= target

\* the last required_stable_rounds + 1 entries of h
Recent(h) ==
    IF Len(h) > required_stable_rounds + 1
    THEN SubSeq(h, Len(h) - required_stable_rounds, Len(h)) ELSE h

\* the while condition of the scroll loop
ScrollContinues ==
    /\ scroll_attempts < config.scroll_timeout
    /\ stable_rounds < required_stable_rounds

\* what the DOM may hold after one more scroll: the next snapshot of a
\* scripted page (its last snapshot stays), any subset of the anchors of a
\* page that changes freely
NextMounted == IF script = <<>> THEN SUBSET (1..Len(listing)) ELSE {script[1]}

NextScript == IF Len(script) > 1 THEN Tail(script) ELSE script

\* lines 161-168: the locals before the first round
ScrollBegin ==
    /\ pc = "listing"
    /\ pc' = "scroll"
    /\ last_height' = page_height
    /\ scroll_attempts' = 0
    /\ seen_hrefs' = {}
    /\ stable_rounds' = 0
    /\ rounds' = 0
    /\ history' = <<0>>
    /\ UNCHANGED <<config, envVars, script, discovered, scroll_error, pass1Vars, pass2Vars,
                   dataVars, norm, extractVars>>

\* lines 170-207: one round of the loop
ScrollRound ==
    /\ pc = "scroll"
    /\ ScrollContinues
    /\ \E shown \in NextMounted, new_height \in heights :
         \E seen \in {seen_hrefs \cup NewHrefs(listing, shown)} :
           \E prev_count \in {Cardinality(seen_hrefs)}, curr_count \in {Cardinality(seen)} :
            /\ mounted' = shown
            /\ page_height' = new_height
            /\ seen_hrefs' = seen
            /\ stable_rounds' = StableAfter(stable_rounds, prev_count, curr_count)
            /\ scroll_attempts' = IF new_height = last_height THEN scroll_attempts + 1 ELSE 0
            /\ last_height' = IF new_height = last_height THEN last_height ELSE new_height
            /\ rounds' = rounds + 1
            /\ history' = Recent(Append(history, curr_count))
            /\ IF TargetReached(curr_count, config.target_companies)
               THEN pc' = "scrolled" /\ discovered' = seen
               ELSE pc' = "scroll" /\ discovered' = discovered
    /\ script' = NextScript
    /\ UNCHANGED <<config, listing, heights, storage, scroll_error, pass1Vars, pass2Vars, dataVars, norm, extractVars>>

\* line 170 false, line 209: the loop ends
ScrollEnd ==
    /\ pc = "scroll"
    /\ ~ScrollContinues
    /\ pc' = "scrolled"
    /\ discovered' = seen_hrefs
    /\ UNCHANGED <<config, envVars, script, last_height, scroll_attempts, stable_rounds,
                   seen_hrefs, rounds, history, scroll_error, pass1Vars, pass2Vars, dataVars,
                   norm, extractVars>>

\* a mutation: the exception is swallowed and the run goes on
AfterScrollErrorSwallowed == "scrolled"

\* lines 210-212, 142-149: where the run is after an exception of the scroll
\* loop, which every handler on the way logs and raises again
AfterScrollError == "failed"

\* lines 161, 171-177, 210-212, 142-151: page.evaluate or a query raises
\* before the first round or in a round
ScrollFails ==
    /\ \/ pc = "listing"
       \/ pc = "scroll" /\ ScrollContinues
    /\ pc' = AfterScrollError
    /\ scroll_error' = TRUE
    /\ discovered' = seen_hrefs
    /\ session_stats' = [session_stats EXCEPT !.ended = (AfterScrollError = "failed")]
    /\ UNCHANGED <<config, envVars, script, last_height, scroll_attempts, stable_rounds,
                   seen_hrefs, rounds, history, pass1Vars, pass2Vars, companies, counts,
                   checkpoint, saves, norm, extractVars>>

\* ------------------------------------------------------------ anchor text

\* .lower() of the words of the model's texts (other tokens are unchanged)
LowerWord(w) ==
    CASE w = "Acme" -> "acme" [] w = "Bolt" -> "bolt" [] w = "Cobalt" -> "cobalt"
      [] w = "Fintech" -> "fintech" [] w = "AI" -> "ai"
      [] w = "Founder" -> "founder" [] w = "Directory" -> "directory"
      [] w = "Companies" -> "companies" [] w = "About" -> "about"
      [] w = "Contact" -> "contact"
      [] w = "LinkedIn" -> "linkedin" [] w = "Jane" -> "jane" [] w = "Roe" -> "roe"
      [] w = "Ann" -> "ann" [] w = "Lee" -> "lee" [] w = "Home" -> "home"
      [] OTHER -> w

\* text.lower()
Lower(text) == [k \in 1..Len(text) |-> LowerWord(text[k])]

Whitespace == {" ", "\n"}

\* text.lstrip()
RECURSIVE LStrip(_)
LStrip(text) ==
    IF Len(text) > 0 /\ text[1] \in Whitespace THEN LStrip(Tail(text)) ELSE text

\* text.rstrip()
RECURSIVE RStrip(_)
RStrip(text) ==
    IF Len(text) > 0 /\ text[Len(text)] \in Whitespace
    THEN RStrip(SubSeq(text, 1, Len(text) - 1)) ELSE text

\* text.strip()
Strip(text) == LStrip(RStrip(text))

\* ['founder directory', 'companies', 'about', 'contact']
NavigationLabels ==
    {<<"founder", " ", "directory">>, <<"companies">>, <<"about">>, <<"contact">>}

\* a mutation: no text is a navigation label
IsNavigationNever(text) == FALSE

\* text.strip().lower() in ['founder directory', 'companies', 'about', 'contact']
IsNavigation(text) == Lower(Strip(text)) \in NavigationLabels

\* the first line of a stripped text: parts[0] of
\* [part.strip() for part in re.split(r'[\n\r]+', text) if part.strip()]
RECURSIVE FirstPart(_)
FirstPart(text) ==
    LET t == LStrip(text)
        N == {k \in 1..Len(t) : t[k] = "\n"}
    IN IF t = <<>> THEN <<>>
       ELSE IF N = {} THEN Strip(t)
       ELSE LET n == CHOOSE x \in N : \A y \in N : x <= y
            IN Strip(SubSeq(t, 1, n - 1))

\* category_keywords, those a word of the model's texts can contain, in the
\* order of the list
CategoryKeywords == <<"AI", "Fintech">>

\* keyword.lower() in text_lower, for texts over the model's words
HasKeyword(text, keyword) ==
    \E k \in 1..Len(text) : LowerWord(text[k]) = LowerWord(keyword)

\* ", ".join(categories)
RECURSIVE JoinFound(_, _)
JoinFound(text, k) ==
    IF k > Len(CategoryKeywords) THEN <<>>
    ELSE LET rest == JoinFound(text, k + 1)
         IN IF HasKeyword(text, CategoryKeywords[k])
            THEN <<CategoryKeywords[k]>> \o (IF rest = <<>> THEN <<>> ELSE <<", ">> \o rest)
            ELSE rest

\* _extract_basic_info(text): the company name and the categories
ExtractBasicInfo(text) ==
    IF text = <<>> THEN [name |-> <<>>, categories |-> <<>>]
    ELSE IF Strip(text) = <<>> THEN [name |-> <<>>, categories |-> <<>>]
    ELSE [name |-> FirstPart(text), categories |-> JoinFound(Strip(text), 1)]

\* ------------------------------------------------------------ listing pages

\* anchors of a listing page: the href attribute and the text content
Acme == [href |-> CompaniesPath \o <<"a">>, text |-> <<"Acme", "\n", "Fintech">>]
AcmeAbsolute == [href |-> <<Origin>> \o CompaniesPath \o <<"a">>, text |-> <<"Acme">>]
Bolt == [href |-> CompaniesPath \o <<"b">>, text |-> <<"Bolt">>]
BoltQuery == [href |-> CompaniesPath \o <<"b", "?", "a">>, text |-> <<"Bolt">>]
CobaltSlash == [href |-> CompaniesPath \o <<"c", "/">>, text |-> <<"Cobalt", " ", "AI">>]
Directory == [href |-> CompaniesPath \o <<"1">>,
              text |-> <<" ", "Founder", " ", "Directory", "\n">>]
NoText == [href |-> CompaniesPath \o <<"c">>, text |-> None]

Anchors == {Acme, AcmeAbsolute, Bolt, BoltQuery, CobaltSlash, Directory, NoText}

\* the sequences of n distinct elements of S
Arrangements(S, n) ==
    {f \in [1..n -> S] : \A i, j \in 1..n : i # j => f[i] # f[j]}

SmallListings == UNION {Arrangements(Anchors, n) : n \in 0..MaxListing}

\* the i-th slug of a long listing: i in bijective base 2 over the letters a, b
RECURSIVE Slug(_)
Slug(i) ==
    IF i = 0 THEN <<>>
    ELSE Slug((i - 1) \div 2) \o <<IF (i - 1) % 2 = 0 THEN "a" ELSE "b">>

\* a listing of ScenarioLinks companies that mounts 20 links in the first
\* round, all of them in the second, and nothing more afterwards
LongListing ==
    [i \in 1..ScenarioLinks |-> [href |-> CompaniesPath \o Slug(i), text |-> <<"Acme">>]]

LongScript ==
    <<1..20, 1..ScenarioLinks, 1..ScenarioLinks, 1..ScenarioLinks, 1..ScenarioLinks>>

NormIdle == norm = [stage |-> 0, raw |-> <<>>, first |-> NoResult, second |-> NoResult]

\* an anchor of another site with /companies/ in its path
Elsewhere == [href |-> <<OtherOrigin>> \o CompaniesPath \o <<"a">>, text |-> <<"Acme">>]

\* short pages whose DOM changes freely while they are scrolled and whose
\* height stays the same (a virtualized list)
FreePage ==
    /\ listing \in SmallListings
    /\ mounted = 1..Len(listing)
    /\ script = <<>>
    /\ page_height = 1
    /\ heights = {1}

\* short pages whose DOM and height change freely while they are scrolled;
\* the scroll loop reads nothing but the hrefs of the anchors
FreeScrollPage ==
    /\ listing \in UNION {Arrangements({Acme, AcmeAbsolute, BoltQuery, Elsewhere}, n) :
                             n \in 0..MaxListing}
    /\ mounted = 1..Len(listing)
    /\ script = <<>>
    /\ page_height = 1
    /\ heights = 1..MaxHeight

\* the number of links of a page on which the default configuration runs
\* more than scroll_timeout rounds
GrowLinks == DefaultConfig.scroll_timeout \div required_stable_rounds + 1

\* a listing that mounts one more link every required_stable_rounds rounds
\* (an infinite-scroll page that loads slowly)
GrowListing ==
    [i \in 1..GrowLinks |-> [href |-> CompaniesPath \o Slug(i), text |-> <<"Bolt">>]]

GrowScript ==
    [r \in 1..(required_stable_rounds * GrowLinks) |->
        1..((r + required_stable_rounds - 1) \div required_stable_rounds)]

\* the growing page, which shows the snapshots of GrowScript
GrowingPage ==
    /\ listing = GrowListing
    /\ mounted = {}
    /\ script = GrowScript
    /\ page_height = 1
    /\ heights = 1..MaxHeight

\* the long page, which shows the snapshots of LongScript
ScriptedPage ==
    /\ listing = LongListing
    /\ mounted = {}
    /\ script = LongScript
    /\ page_height = 1
    /\ heights = 1..MaxHeight

\* ------------------------------------------------- collecting the links

\* the code point of a one-character token; of a word, that of its first
\* character (words are only ever compared with themselves)
CodePoint(t) ==
    CASE t = "\n" -> 10 [] t = " " -> 32 [] t = "#" -> 35 [] t = "-" -> 45
      [] t = "/" -> 47 [] t = "1" -> 49 [] t = "?" -> 63 [] t = "A" -> 65
      [] t = "a" -> 97 [] t = "b" -> 98 [] t = "c" -> 99
      [] t = "companies" -> 99 [] OTHER -> 104

\* x < y for Python strings
RECURSIVE StrLess(_, _)
StrLess(x, y) ==
    IF y = <<>> THEN FALSE
    ELSE IF x = <<>> THEN TRUE
    ELSE IF x[1] = y[1] THEN StrLess(Tail(x), Tail(y))
    ELSE CodePoint(x[1]) < CodePoint(y[1])

\* a mutation: the set listed in descending order
RECURSIVE SortedDescending(_)
SortedDescending(S) ==
    IF S = {} THEN <<>>
    ELSE LET m == CHOOSE x \in S : \A y \in S : y = x \/ StrLess(y, x)
         IN <<m>> \o SortedDescending(S \ {m})

\* sorted(S) for a set of strings
RECURSIVE Sorted(_)
Sorted(S) ==
    IF S = {} THEN <<>>
    ELSE LET m == CHOOSE x \in S : \A y \in S : y = x \/ StrLess(x, y)
         IN <<m>> \o Sorted(S \ {m})

\* lines 101-111: the href to keep for one raw link (none or one)
ListingHref(href) ==
    IF href = <<>> \/ href = None THEN {}
    ELSE LET h == MakeAbsolute(href)
         IN IF MatchLoose(h) THEN {RStripSlash(h)} ELSE {}

\* href.replace('https://www.ycombinator.com', '')
RECURSIVE WithoutOrigin(_)
WithoutOrigin(href) ==
    IF href = <<>> THEN <<>>
    ELSE (IF href[1] = Origin THEN <<>> ELSE <<href[1]>>) \o WithoutOrigin(Tail(href))

\* page.query_selector("a[href='<relative>'], a[href='<href>']"): the first
\* mounted anchor, in document order, with one of the two as href attribute
QueryAnchor(anchors, shown, href) ==
    LET K == {k \in 1..Len(anchors) :
                 /\ k \in shown
                 /\ anchors[k].href \in {WithoutOrigin(href), href}}
    IN IF K = {} THEN <<>>
       ELSE <<anchors[CHOOSE x \in K : \A y \in K : x <= y]>>

\* lines 100-113: unique_hrefs, from the anchors in the DOM at line 100
UniqueHrefs(anchors, shown) ==
    LET raw_links == QueryCompanyAnchors(anchors, shown)
    IN Sorted(UNION {ListingHref(raw_links[k].href) : k \in 1..Len(raw_links)})

\* what the DOM may hold at a query after the scroll loop: any subset of the
\* anchors of a page that changes freely, what it held of a scripted page
DomNow == IF script = <<>> THEN SUBSET (1..Len(listing)) ELSE {mounted}

\* lines 115-119: the handle lists that the queries of line 117 can give, one
\* query per href, each on the DOM of its moment
RECURSIVE QueryEachAny(_, _, _)
QueryEachAny(anchors, doms, hrefs) ==
    IF hrefs = <<>> THEN {<<>>}
    ELSE {found \o rest : found \in {QueryAnchor(anchors, d, hrefs[1]) : d \in doms},
                          rest \in QueryEachAny(anchors, doms, Tail(hrefs))}

\* lines 99-124: the anchors in the DOM at line 100 give unique_hrefs, the
\* queries of line 117 give company_links; the locals of the scroll loop are
\* gone
CollectLinks ==
    /\ pc = "scrolled"
    /\ pc' = "pass1"
    /\ \E shown \in DomNow :
          /\ mounted' = shown
          /\ company_links' \in QueryEachAny(listing, DomNow, UniqueHrefs(listing, shown))
    /\ link_i' = 0
    /\ seen_urls' = {}
    /\ last_height' = 0 /\ scroll_attempts' = 0 /\ stable_rounds' = 0
    /\ seen_hrefs' = {} /\ rounds' = 0 /\ history' = <<>>
    /\ UNCHANGED <<config, listing, page_height, heights, storage, script, discovered,
                   scroll_error,
                   pass2Vars, dataVars, norm, extractVars>>

\* lines 100-117, 142-151: query_selector_all, get_attribute or query_selector
\* raises; the handlers log and raise again, the browser is closed and the
\* statistics get their end time, without Pass 1
CollectFails ==
    /\ pc = "scrolled"
    /\ pc' = "failed"
    /\ session_stats' = [session_stats EXCEPT !.ended = TRUE]
    /\ UNCHANGED <<config, envVars, script, scrollVars, pass1Vars, pass2Vars, companies,
                   counts, checkpoint, saves, norm, extractVars>>

\* ------------------------------------------------------------------ Pass 1

\* lines 267-275: the record of a captured company
BasicCompanyData(text, url, at) ==
    LET info == ExtractBasicInfo(text)
    IN [name |-> info.name, description |-> <<>>, url |-> url,
        categories |-> info.categories, founders |-> <<>>, summary |-> <<>>,
        scraped_at |-> at]

\* a mutation: no check against seen_urls
LinkFateNoDedup(link, seen) ==
    IF link.text = None THEN "error"
    ELSE IF IsNavigation(link.text) THEN "skip_navigation"
    ELSE IF link.href = None \/ link.href = <<>> THEN "no_url"
    ELSE IF ~Normalize(link.href).accepted THEN "skip_pattern"
    ELSE "capture"

\* a mutation: a link whose text cannot be read is handled like a link
\* without href
LinkFateErrorAsNoUrl(link, seen) ==
    IF link.text = None THEN "no_url"
    ELSE IF IsNavigation(link.text) THEN "skip_navigation"
    ELSE IF link.href = None \/ link.href = <<>> THEN "no_url"
    ELSE IF ~Normalize(link.href).accepted THEN "skip_pattern"
    ELSE IF Normalize(link.href).url \in seen THEN "skip_duplicate"
    ELSE "capture"

\* what Pass 1 does with one link: "error" (an exception), "no_url",
\* "skip_navigation", "skip_pattern", "skip_duplicate" or "capture"
LinkFate(link, seen) ==
    IF link.text = None THEN "error"
    ELSE IF IsNavigation(link.text) THEN "skip_navigation"
    ELSE IF link.href = None \/ link.href = <<>> THEN "no_url"
    ELSE IF ~Normalize(link.href).accepted THEN "skip_pattern"
    ELSE IF Normalize(link.href).url \in seen THEN "skip_duplicate"
    ELSE "capture"

\* a mutation: the records are appended to the progress file
SaveProgressAppend(records, file) == file \o records

\* _save_progress: the progress file holds what self.companies holds
SaveProgress(records, file) == IF records = <<>> THEN file ELSE records

SavesAfter(records, n) == IF records = <<>> THEN n ELSE n + 1

\* _save_progress, lines 1179-1196: the progress file after a call that ends
\* as outcome says
FileAfter(outcome, records, file) ==
    IF outcome = "refused" THEN file ELSE SaveProgress(records, file)

\* a mutation: the progress is saved one capture late
SaveDueLate(processed, interval) == processed % interval = 1

\* line 284: processed_count % self.config['progress_save_interval'] == 0
SaveDue(processed, interval) == processed % interval = 0

\* lines 228-291: one link of the list; the write of lines 284-285 is inside
\* the try block, after the record was appended: when it raises, the handler
\* of lines 287-291 counts an error for the link
CaptureLink ==
    /\ pc = "pass1"
    /\ link_i < Len(company_links)
    /\ \E outcome \in storage :
         LET link == company_links[link_i + 1]
             fate == LinkFate(link, seen_urls)
             url == Normalize(link.href).url
             captured == Append(companies, BasicCompanyData(link.text, url, link_i + 1))
             processed == counts.processed_count + 1
             saving == SaveDue(processed, config.progress_save_interval)
             written == saving /\ outcome = "written"
             refused == saving /\ outcome # "written"
         IN /\ link_i' = link_i + 1
            /\ IF fate = "capture"
               THEN /\ seen_urls' = seen_urls \cup {url}
                    /\ companies' = captured
                    /\ counts' = [counts EXCEPT
                                     !.processed_count = processed,
                                     !.error_count = IF refused THEN @ + 1 ELSE @]
                    /\ session_stats' = [session_stats EXCEPT
                                            !.successful_captures = @ + 1,
                                            !.errors = IF refused THEN @ + 1 ELSE @]
                    /\ checkpoint' = IF saving THEN FileAfter(outcome, captured, checkpoint)
                                     ELSE checkpoint
                    /\ saves' = IF written THEN SavesAfter(captured, saves) ELSE saves
               ELSE /\ counts' = [counts EXCEPT
                         !.skipped_count =
                             IF fate \in {"skip_navigation", "skip_pattern", "skip_duplicate"}
                             THEN @ + 1 ELSE @,
                         !.error_count = IF fate \in {"error", "no_url"} THEN @ + 1 ELSE @]
                    /\ session_stats' = [session_stats EXCEPT
                                            !.errors = IF fate = "error" THEN @ + 1 ELSE @]
                    /\ UNCHANGED <<seen_urls, companies, checkpoint, saves>>
    /\ UNCHANGED <<pc, config, envVars, script, scrollVars, company_links, pass2Vars, norm, extractVars>>

\* a mutation: the last, shorter chunk is not counted
TotalChunksFloor(n, chunk_size) == n \div chunk_size

\* (len(companies) + chunk_size - 1) // chunk_size
TotalChunks(n, chunk_size) == (n + chunk_size - 1) \div chunk_size

\* lines 293-296 and 307-311: the end of Pass 1 and the start of Pass 2
FinishPass1 ==
    /\ pc = "pass1"
    /\ link_i = Len(company_links)
    /\ pc' = "pass2"
    /\ session_stats' = [session_stats EXCEPT
                            !.total_processed = counts.processed_count,
                            !.skipped = counts.skipped_count]
    /\ counts' = [counts EXCEPT
                     !.chunk_num = 0,
                     !.total_chunks = TotalChunks(Len(companies), config.chunk_size),
                     !.enriched_count = 0,
                     !.enrich_errors = 0]
    /\ UNCHANGED <<config, envVars, script, scrollVars, pass1Vars, pass2Vars,
                   companies, checkpoint, saves, norm, extractVars>>

\* ------------------------------------------------------------------ Pass 2

DescriptionNotAvailable == <<"Description not available">>
SummaryNotAvailable == <<"Summary not available">>

\* what a visit of a detail page meets: the navigation ("ok", "timeout"), and
\* what the extractors return on the page's content (founders_raise: the
\* founder extractor raises)
FullPage ==
    [nav |-> "ok",
     description |-> <<"Acme builds an AI platform that automates invoicing.">>,
     founders |-> <<[name |-> <<"Ada Lovelace">>,
                     linkedin_url |-> <<"https://www.linkedin.com/in/ada">>]>>,
     founders_raise |-> FALSE,
     summary |-> <<"What They Do: Acme builds an AI platform that automates invoicing.">>]

\* a page without usable text: every extractor returns its default
BarePage ==
    [nav |-> "ok", description |-> DescriptionNotAvailable, founders |-> <<>>,
     founders_raise |-> FALSE, summary |-> SummaryNotAvailable]

BrokenPage == [FullPage EXCEPT !.founders_raise = TRUE]

TimeoutPage == [BarePage EXCEPT !.nav = "timeout"]

DetailPages == {FullPage, BarePage, BrokenPage, TimeoutPage}

\* whether the visit of the page fails: page.goto or an extractor raises
VisitFails(page) == page.nav # "ok" \/ page.founders_raise

\* what happens at the visit of the page: "timeout" (page.goto raises),
\* "raised" (an extractor raises after the description was extracted) or
\* "loaded"
VisitOutcome(page) ==
    IF page.nav # "ok" THEN "timeout"
    ELSE IF page.founders_raise THEN "raised"
    ELSE "loaded"

\* a mutation: the extracted data carry a time stamp of their own
ExtractDetailedDataStamped(page) ==
    [raised |-> FALSE,
     data |-> [description |-> IF VisitFails(page) THEN DescriptionNotAvailable
                               ELSE page.description,
               founders |-> IF VisitFails(page) THEN <<>> ELSE page.founders,
               summary |-> IF VisitFails(page) THEN SummaryNotAvailable ELSE page.summary,
               scraped_at |-> 0]]

\* a mutation: the name is part of the extracted data, and empty
ExtractDetailedDataWithName(page) ==
    [raised |-> FALSE,
     data |-> [name |-> <<>>, description |-> page.description,
               founders |-> page.founders, summary |-> page.summary]]

\* a mutation: the fields extracted before an extractor raised are returned
ExtractDetailedDataPartial(page) ==
    IF page.nav # "ok"
    THEN [raised |-> FALSE,
          data |-> [description |-> DescriptionNotAvailable, founders |-> <<>>,
                    summary |-> SummaryNotAvailable]]
    ELSE IF page.founders_raise
    THEN [raised |-> FALSE,
          data |-> [description |-> page.description, founders |-> <<>>,
                    summary |-> SummaryNotAvailable]]
    ELSE [raised |-> FALSE,
          data |-> [description |-> page.description, founders |-> page.founders,
                    summary |-> page.summary]]

\* _extract_detailed_data: what it returns (it catches every Exception, so
\* raised is never TRUE)
ExtractDetailedData(page) ==
    IF VisitFails(page)
    THEN [raised |-> FALSE,
          data |-> [description |-> DescriptionNotAvailable, founders |-> <<>>,
                    summary |-> SummaryNotAvailable]]
    ELSE [raised |-> FALSE,
          data |-> [description |-> page.description, founders |-> page.founders,
                    summary |-> page.summary]]

\* company.update(detailed_data)
Update(company, data) ==
    [f \in DOMAIN company |-> IF f \in DOMAIN data THEN data[f] ELSE company[f]]

\* a mutation: the data are merged into every record
EnrichedAll(records, i, data) == [k \in 1..Len(records) |-> Update(records[k], data)]

\* a mutation: the enriched record is appended, the captured one is kept
EnrichedAppended(records, i, data) == Append(records, Update(records[i], data))

\* self.companies after company.update(detailed_data) on its record i
Enriched(records, i, data) == [records EXCEPT ![i] = Update(@, data)]

\* a mutation: every chunk runs to the end of the records
EndIdxWhole(chunk_num) == Len(companies)

\* start_idx and end_idx of a chunk
StartIdx(chunk_num) == chunk_num * config.chunk_size

EndIdx(chunk_num) ==
    IF (chunk_num + 1) * config.chunk_size < Len(companies)
    THEN (chunk_num + 1) * config.chunk_size ELSE Len(companies)

\* lines 320-340: one record of the current chunk
EnrichRecord ==
    /\ pc = "pass2"
    /\ counts.chunk_num < counts.total_chunks
    /\ visited < EndIdx(counts.chunk_num)
    /\ \E page \in DetailPages :
         LET i == visited + 1
             result == ExtractDetailedData(page)
         IN /\ outcomes' = Append(outcomes, VisitOutcome(page))
            /\ IF result.raised
               THEN /\ counts' = [counts EXCEPT !.enrich_errors = @ + 1]
                    /\ session_stats' = [session_stats EXCEPT !.errors = @ + 1]
                    /\ UNCHANGED companies
               ELSE /\ companies' = Enriched(companies, i, result.data)
                    /\ counts' = [counts EXCEPT !.enriched_count = @ + 1]
                    /\ session_stats' = [session_stats EXCEPT
                                            !.successful_enrichments = @ + 1]
    /\ visited' = visited + 1
    /\ UNCHANGED <<pc, config, envVars, script, scrollVars, pass1Vars, checkpoint, saves, norm, extractVars>>

\* lines 342-346: the delay and the progress file after a chunk; the write
\* is in no try block of Pass 2: when it raises, scrape_companies logs it and
\* raises it again, the browser is closed and the statistics get their end
\* time (lines 142-151)
FinishChunk ==
    /\ pc = "pass2"
    /\ counts.chunk_num < counts.total_chunks
    /\ visited = EndIdx(counts.chunk_num)
    /\ \E outcome \in storage :
          IF outcome = "written" \/ companies = <<>>
          THEN /\ counts' = [counts EXCEPT !.chunk_num = @ + 1]
               /\ checkpoint' = SaveProgress(companies, checkpoint)
               /\ saves' = SavesAfter(companies, saves)
               /\ UNCHANGED <<pc, session_stats>>
          ELSE /\ pc' = "failed"
               /\ session_stats' = [session_stats EXCEPT !.ended = TRUE]
               /\ checkpoint' = FileAfter(outcome, companies, checkpoint)
               /\ UNCHANGED <<counts, saves>>
    /\ UNCHANGED <<config, envVars, script, scrollVars, pass1Vars, pass2Vars,
                   companies, norm, extractVars>>

\* lines 348-349, 132-151: Pass 2 is over, the browser is closed and the
\* statistics get their end time
FinishRun ==
    /\ pc = "pass2"
    /\ counts.chunk_num = counts.total_chunks
    /\ pc' = "done"
    /\ session_stats' = [session_stats EXCEPT !.ended = TRUE]
    /\ UNCHANGED <<config, envVars, script, scrollVars, pass1Vars, pass2Vars,
                   companies, counts, checkpoint, saves, norm, extractVars>>

\* ------------------------------------------- specification: the scroll loop

ScrollInit ==
    /\ pc = "listing"
    /\ Constructed
    /\ Writable
    /\ ExtractIdle
    /\ NoLinks
    /\ NormIdle
    /\ \/ FreeScrollPage /\ config \in Configs
       \/ ScriptedPage /\ config = DefaultConfig
       \/ GrowingPage /\ config = DefaultConfig

ScrollNext == ScrollBegin \/ ScrollRound \/ ScrollEnd \/ ScrollFails

SpecScroll == ScrollInit /\ [][ScrollNext]_vars

\* --------------------------------------------- specification: the normalizer

NormInit ==
    /\ pc = "norm"
    /\ config = DefaultConfig
    /\ Constructed
    /\ Writable
    /\ ExtractIdle
    /\ NoLinks
    /\ NoPage
    /\ norm \in [stage : {0}, raw : RawHrefs, first : {NoResult}, second : {NoResult}]

\* the normalization of Pass 1 applied to a raw href
NormFirst ==
    /\ pc = "norm"
    /\ norm.stage = 0
    /\ norm' = [norm EXCEPT !.stage = 1, !.first = Normalize(norm.raw)]
    /\ UNCHANGED <<pc, config, envVars, script, scrollVars, pass1Vars, pass2Vars, dataVars,
                   extractVars>>

\* the same normalization applied to the url it accepted
NormSecond ==
    /\ pc = "norm"
    /\ norm.stage = 1
    /\ norm.first.accepted
    /\ norm' = [norm EXCEPT !.stage = 2, !.second = Normalize(norm.first.url)]
    /\ UNCHANGED <<pc, config, envVars, script, scrollVars, pass1Vars, pass2Vars, dataVars,
                   extractVars>>

NormNext == NormFirst \/ NormSecond

SpecNorm == NormInit /\ [][NormNext]_vars

\* ------------------------------------------ specification: scrape_companies

\* a mutation: the statistics are left without their end time
FinalizedNever(stats) == stats

\* lines 150-151: the finally clause of scrape_companies stamps end_time
Finalized(stats) == [stats EXCEPT !.ended = TRUE]

\* lines 83-85, 147-151: async_playwright, chromium.launch or new_page raises;
\* the outer handler logs and raises again, the finally clause stamps end_time
BrowserFails ==
    /\ pc = "start"
    /\ pc' = "no_browser"
    /\ session_stats' = Finalized(session_stats)
    /\ UNCHANGED <<config, envVars, script, scrollVars, pass1Vars, pass2Vars, companies,
                   counts, checkpoint, saves, norm, extractVars>>

\* lines 83-93: the browser is launched and the listing page is loaded
OpenListing ==
    /\ pc = "start"
    /\ pc' = "listing"
    /\ UNCHANGED <<config, envVars, script, scrollVars, pass1Vars, pass2Vars, dataVars, norm, extractVars>>

Init ==
    /\ pc = "start"
    /\ config = DefaultConfig
    /\ Constructed
    /\ Writable
    /\ ExtractIdle
    /\ NoLinks
    /\ NormIdle
    /\ FreePage

Next ==
    \/ OpenListing
    \/ BrowserFails
    \/ ScrollBegin
    \/ ScrollRound
    \/ ScrollEnd
    \/ ScrollFails
    \/ CollectLinks
    \/ CollectFails
    \/ CaptureLink
    \/ FinishPass1
    \/ EnrichRecord
    \/ FinishChunk
    \/ FinishRun

Spec == Init /\ [][Next]_vars

\* ------------------------------- specification: the two passes on any list

NoHref == [href |-> None, text |-> <<"Bolt">>]

Links == (Anchors \ {CobaltSlash}) \cup {Elsewhere, NoHref}

LinkLists == UNION {[1..n -> Links] : n \in 0..MaxLinks}

\* ten links: the third and the seventh are navigation labels, the ninth has
\* the href of the second
TenLinks ==
    [i \in 1..10 |->
        IF i \in {3, 7}
        THEN [href |-> CompaniesPath \o Slug(i), text |-> <<"Founder", " ", "Directory">>]
        ELSE IF i = 9 THEN [href |-> CompaniesPath \o Slug(2), text |-> <<"Bolt">>]
        ELSE [href |-> CompaniesPath \o Slug(i), text |-> <<"Acme">>]]

\* the passes are about to run on a list of links
PassesStart ==
    /\ pc = "pass1"
    /\ Constructed
    /\ ExtractIdle
    /\ NormIdle
    /\ NoPage
    /\ \E links \in LinkLists \cup {TenLinks}, c \in Configs :
          /\ config = c
          /\ company_links = links

PassesInit == PassesStart /\ Writable

PassesNext ==
    \/ CaptureLink
    \/ FinishPass1
    \/ EnrichRecord
    \/ FinishChunk
    \/ FinishRun

SpecPasses == PassesInit /\ [][PassesNext]_vars

\* --------------- specification: the two passes when a write can be refused

StorageInit ==
    /\ PassesStart
    /\ config = SmallConfig
    /\ storage = {"written", "refused", "partial"}

SpecStorage == StorageInit /\ [][PassesNext]_vars

\* ---- specification: scrape_companies on a page, or the passes on a list in
\* which a company can stand several times

OrderLinks == {Acme, AcmeAbsolute, Bolt, Directory}

OrderInit ==
    \/ Init
    \/ /\ pc = "pass1"
       /\ config = DefaultConfig
       /\ Constructed
       /\ Writable
       /\ ExtractIdle
       /\ NormIdle
       /\ NoPage
       /\ \E n \in 0..MaxLinks : \E links \in [1..n -> OrderLinks] : company_links = links

SpecOrder == OrderInit /\ [][Next]_vars

\* --------------------------------------------------- the founder extractor

Https == <<"https:", "/", "/">>
Http == <<"http:", "/", "/">>
LinkedinCom == <<"linkedin.com">>

\* s.lstrip('/')
RECURSIVE LStripSlash(_)
LStripSlash(s) == IF Len(s) > 0 /\ s[1] = "/" THEN LStripSlash(Tail(s)) ELSE s

\* s.replace(old, new)
RECURSIVE Replace(_, _, _)
Replace(s, old, new) ==
    IF Len(s) < Len(old) THEN s
    ELSE IF SubSeq(s, 1, Len(old)) = old
         THEN new \o Replace(SubSeq(s, Len(old) + 1, Len(s)), old, new)
         ELSE <<s[1]>> \o Replace(Tail(s), old, new)

\* url.startswith('http'): the first token is one that begins with http
StartsWithHttp(url) == Len(url) > 0 /\ url[1] \in {"https:", "http:", Origin, OtherOrigin}

\* lines 501-507: strip, then the https scheme is put in front or in place
EnsureHttps(url) ==
    LET stripped == Strip(url)
        relative == IF StartsWith(stripped, <<"/", "/">>) THEN <<"https:">> \o stripped
                    ELSE stripped
        schemed == IF ~StartsWithHttp(relative) THEN Https \o LStripSlash(relative)
                   ELSE relative
    IN IF StartsWith(schemed, Http) THEN Https \o SubSeq(schemed, 4, Len(schemed))
       ELSE schemed

\* line 513: url.replace('https://linkedin.com', 'https://www.linkedin.com')
ForceWww(url) == Replace(url, Https \o LinkedinCom, Https \o <<"www.">> \o LinkedinCom)

\* _normalize_linkedin_url
NormalizeLinkedinUrl(url) ==
    IF url = None \/ url = <<>> THEN <<>>
    ELSE ForceWww(RStripSlash(StripQueryFragment(EnsureHttps(url))))

\* the tokens of the model's texts that are one character long
SingleChars == {"J", " ", "\n"}

\* len(text) > 1
LongerThanOne(text) == Len(text) > 1 \/ (Len(text) = 1 /\ text[1] \notin SingleChars)

\* text.lower().startswith('linkedin')
StartsWithLinkedin(text) == Len(text) > 0 /\ LowerWord(text[1]) = "linkedin"

\* soup.select("a[href*='linkedin.com']") and section.select of the same:
\* the attribute selector on an anchor
SelectsLinkedin(a) == a.href # None /\ Contains(a.href, LinkedinCom)

\* lines 530-534 and 568-576: whether the normalized href is a person's profile
IsPersonProfile(href_norm) ==
    /\ Contains(href_norm, LinkedinCom)
    /\ ~Contains(href_norm, <<"/", "company", "/">>)
    /\ Contains(href_norm, <<"/", "in", "/">>) \/ Contains(href_norm, <<"/", "pub", "/">>)

\* lines 536-554: the name of an anchor in a founder section
SectionName(a) ==
    LET anchor_text == Strip(a.text)
    IN IF anchor_text # <<>> /\ LongerThanOne(anchor_text) /\ ~StartsWithLinkedin(anchor_text)
       THEN anchor_text ELSE a.nearby

\* lines 578-595: the name of an anchor anywhere on the page
PageName(a) ==
    LET anchor_text == Strip(a.text)
    IN IF anchor_text = <<>> \/ ~LongerThanOne(anchor_text) \/ StartsWithLinkedin(anchor_text)
       THEN IF a.nearby4 # <<>> THEN a.nearby4 ELSE anchor_text
       ELSE anchor_text

\* lines 521-560: the founders of the anchors in founder sections
RECURSIVE SectionFounders(_)
SectionFounders(anchors) ==
    IF anchors = <<>> THEN <<>>
    ELSE LET a == Head(anchors)
             href_norm == NormalizeLinkedinUrl(a.href)
         IN IF /\ a.section
               /\ SelectsLinkedin(a)
               /\ a.href # <<>>
               /\ IsPersonProfile(href_norm)
               /\ SectionName(a) # <<>>
            THEN <<[name |-> SectionName(a), linkedin_url |-> href_norm]>>
                     \o SectionFounders(Tail(anchors))
            ELSE SectionFounders(Tail(anchors))

\* lines 562-601: the founders of the anchors anywhere on the page
RECURSIVE PageFounders(_)
PageFounders(anchors) ==
    IF anchors = <<>> THEN <<>>
    ELSE LET a == Head(anchors)
             href_norm == NormalizeLinkedinUrl(a.href)
         IN IF /\ SelectsLinkedin(a)
               /\ a.href # <<>>
               /\ IsPersonProfile(href_norm)
               /\ PageName(a) # <<>>
               /\ ~StartsWithLinkedin(PageName(a))
            THEN <<[name |-> PageName(a), linkedin_url |-> href_norm]>>
                     \o PageFounders(Tail(anchors))
            ELSE PageFounders(Tail(anchors))

\* lines 603-614: the first five names of the page's text, without urls, if
\* the text has one of founder_patterns
NameFounders(page) ==
    IF page.keyword
    THEN [k \in 1..(IF Len(page.names) < 5 THEN Len(page.names) ELSE 5) |->
             [name |-> page.names[k], linkedin_url |-> <<>>]]
    ELSE <<>>

\* lines 616-623: the dictionary keyed by linkedin_url or name, in insertion
\* order
RECURSIVE Deduped(_, _)
Deduped(founders, deduped) ==
    IF founders = <<>> THEN deduped
    ELSE LET f == Head(founders)
             key == IF f.linkedin_url # <<>> THEN f.linkedin_url ELSE f.name
             entry == [name |-> Strip(f.name), linkedin_url |-> Strip(f.linkedin_url)]
             K == {k \in 1..Len(deduped) : deduped[k].key = key}
         IN IF key = <<>> THEN Deduped(Tail(founders), deduped)
            ELSE IF K = {}
                 THEN Deduped(Tail(founders), Append(deduped, [key |-> key, entry |-> entry]))
                 ELSE LET k == CHOOSE x \in K : TRUE
                      IN IF deduped[k].entry.name = <<>> /\ f.name # <<>>
                         THEN Deduped(Tail(founders), [deduped EXCEPT ![k].entry = entry])
                         ELSE Deduped(Tail(founders), deduped)

\* lines 625-633: the entries with a usable name
NamedEntries(deduped) ==
    SelectSeq([k \in 1..Len(deduped) |-> deduped[k].entry],
              LAMBDA e : /\ Strip(e.name) # <<>>
                         /\ LongerThanOne(Strip(e.name))
                         /\ ~StartsWithLinkedin(Strip(e.name)))

\* _extract_founders
ExtractFounders(page) ==
    LET first == SectionFounders(page.anchors)
        second == IF first = <<>> THEN PageFounders(page.anchors) ELSE first
        founders == IF second = <<>> THEN NameFounders(page) ELSE second
        result == NamedEntries(Deduped(founders, <<>>))
    IN SubSeq(result, 1, IF Len(result) < 5 THEN Len(result) ELSE 5)

\* ------------------------------------ specification: the founder extractor

JaneRoe == <<"Jane", " ", "Roe">>
AnnLee == <<"Ann", " ", "Lee">>

Schemes == {Https, Http, <<"/", "/">>, <<>>}
Hosts == {<<"www.">> \o LinkedinCom, LinkedinCom}
ProfileSlugs == {"jane", "Jane"}
ProfileTails == {<<>>, <<"/">>, <<"/", "?", "q", "#", "f">>}

\* the href of a profile, written in one of the ways a page writes it
ProfileHref(scheme, host, slug, tail) == scheme \o host \o <<"/", "in", "/", slug>> \o tail

\* the url under which a profile is kept
ProfileKey(slug) == Https \o <<"www.">> \o LinkedinCom \o <<"/", "in", "/", slug>>

\* the anchors of the model's pages: href, text, the first name that
\* _extract_names_from_text finds in the text of the three nearest ancestors
\* (nearby, the search of lines 546-553) and in that of the four nearest
\* ancestors without urls (nearby4, the search of lines 582-595), whether the
\* anchor is in a founder section, and the slug its href was written for
\* (profile, which the extractor never sees)
NamedAnchors ==
    {[href |-> ProfileHref(s, h, g, t), text |-> JaneRoe, nearby |-> <<>>, nearby4 |-> <<>>, section |-> FALSE,
      profile |-> g] : s \in Schemes, h \in Hosts, g \in ProfileSlugs, t \in ProfileTails}

SectionAnchors ==
    {[href |-> ProfileHref(Https, <<"www.">> \o LinkedinCom, g, t), text |-> AnnLee,
      nearby |-> <<>>, nearby4 |-> <<>>, section |-> TRUE, profile |-> g] :
        g \in ProfileSlugs, t \in {<<>>, <<"/">>}}

OtherAnchors ==
    {[href |-> ProfileKey("jane"), text |-> <<"LinkedIn">>, nearby |-> JaneRoe, nearby4 |-> JaneRoe, section |-> FALSE, profile |-> ""],
     [href |-> ProfileKey("jane"), text |-> <<"LinkedIn">>, nearby |-> <<>>, nearby4 |-> <<>>, section |-> TRUE, profile |-> ""],
     [href |-> ProfileKey("Jane"), text |-> <<"J">>, nearby |-> <<>>, nearby4 |-> <<>>, section |-> FALSE, profile |-> ""],
     [href |-> Https \o <<"www.">> \o LinkedinCom \o <<"/", "company", "/", "acme">>,
      text |-> <<"Acme">>, nearby |-> <<>>, nearby4 |-> <<>>, section |-> TRUE, profile |-> ""],
     [href |-> <<Origin, "/", "companies", "/", "a">>, text |-> <<"Acme">>, nearby |-> <<>>, nearby4 |-> <<>>,
      section |-> FALSE, profile |-> ""],
     [href |-> ProfileKey("jane"), text |-> <<"LinkedIn">>, nearby |-> <<>>, nearby4 |-> JaneRoe,
      section |-> TRUE, profile |-> ""],
     [href |-> <<OtherOrigin, "/">> \o LinkedinCom \o <<"/", "in", "/", "jane">>, text |-> JaneRoe,
      nearby |-> <<>>, nearby4 |-> <<>>, section |-> FALSE, profile |-> ""],
     [href |-> None, text |-> JaneRoe, nearby |-> <<>>, nearby4 |-> <<>>, section |-> FALSE, profile |-> ""]}

\* anchors to a profile whose text is an initial, each alone in its four
\* nearest ancestors
InitialAnchors ==
    {[href |-> ProfileHref(Https, <<"www.">> \o LinkedinCom, "jane", t), text |-> <<"J">>,
      nearby |-> <<>>, nearby4 |-> <<>>, section |-> FALSE, profile |-> "jane"] :
        t \in {<<>>, <<"/">>}}

ProfileAnchors == NamedAnchors \cup SectionAnchors \cup InitialAnchors \cup OtherAnchors

AnchorLists == UNION {[1..n -> ProfileAnchors] : n \in 1..MaxAnchors}

FoundersInit ==
    /\ pc = "founders"
    /\ config = DefaultConfig
    /\ Constructed
    /\ Writable
    /\ NoLinks
    /\ NoPage
    /\ NormIdle
    /\ extracted = <<>>
    /\ research = <<>>
    /\ \E anchors \in AnchorLists :
          \/ soup = [anchors |-> anchors, names |-> <<>>, keyword |-> FALSE]
          \/ /\ \A k \in 1..Len(anchors) : anchors[k] \in OtherAnchors
             /\ \E keyword \in BOOLEAN :
                   soup = [anchors |-> anchors, names |-> <<AnnLee>>, keyword |-> keyword]

\* _extract_founders on the parsed page
FoundersExtract ==
    /\ pc = "founders"
    /\ extracted = <<>>
    /\ extracted' = <<ExtractFounders(soup)>>
    /\ UNCHANGED <<pc, config, envVars, script, scrollVars, pass1Vars, pass2Vars, dataVars,
                   norm, soup, research>>

FoundersNext == FoundersExtract

SpecFounders == FoundersInit /\ [][FoundersNext]_vars

\* ------------------------------------------------ the description extractor

\* a phrase without any of the extractor's keywords
Filler == "invoicing for large enterprises everywhere"

\* len(w) of the tokens of the model's paragraphs
TokenLen(w) ==
    CASE w = Filler -> 42
      [] w = "Acme" -> 4 [] w = "Home" -> 4 [] w = "builds" -> 6 [] w = "platform" -> 8
      [] w = "employees" -> 9 [] w = "y combinator" -> 12
      [] OTHER -> 1

\* len(text)
RECURSIVE CharLen(_)
CharLen(text) == IF text = <<>> THEN 0 ELSE TokenLen(Head(text)) + CharLen(Tail(text))

\* any(phrase in text.lower() for phrase in phrases)
AnyIn(text, phrases) == \E k \in 1..Len(text) : LowerWord(text[k]) \in phrases

\* re.sub(r'\s+', ' ', sentence)
RECURSIVE CollapseSpaces(_)
CollapseSpaces(text) ==
    IF text = <<>> THEN <<>>
    ELSE IF Head(text) \in Whitespace
         THEN <<" ">> \o CollapseSpaces(LStrip(text))
         ELSE <<Head(text)>> \o CollapseSpaces(Tail(text))

\* _clean_sentence
CleanSentence(sentence) ==
    LET collapsed == CollapseSpaces(Strip(sentence))
    IN IF collapsed # <<>> /\ collapsed[Len(collapsed)] \notin {".", "!", "?"}
       THEN Append(collapsed, ".") ELSE collapsed

SkipPhrases ==
    {"home >", "companies >", "back to", "y combinator", "founded in", "employees based",
     "san francisco", "new york"}
action_verbs == {"builds", "creates", "develops", "provides", "offers", "helps", "enables"}
business_terms == {"platform", "software", "ai", "solution", "service", "tool", "system"}
NegativePhrases == {"founded in", "based in", "employees", "y combinator", "yc"}

\* _is_description_paragraph
IsDescriptionParagraph(text) ==
    /\ ~AnyIn(text, SkipPhrases)
    /\ CharLen(text) > 50
    /\ AnyIn(text, action_verbs \cup business_terms)

\* _score_description
ScoreDescription(text, company_name) ==
    (IF Contains(Lower(text), Lower(company_name)) THEN 2 ELSE 0)
    + (IF AnyIn(text, action_verbs) THEN 3 ELSE 0)
    + (IF AnyIn(text, business_terms) THEN 1 ELSE 0)
    - (IF AnyIn(text, NegativePhrases) THEN 2 ELSE 0)

\* lines 782-786: whether the meta description is returned
MetaUsable(meta) ==
    /\ meta # None
    /\ meta # <<>>
    /\ CharLen(Strip(meta)) > 30
    /\ LowerWord(Strip(meta)[1]) \notin {"home", "companies"}

main_content_selectors == <<"main", "article", "content", "section">>

\* lines 797-806: the texts of the paragraphs of the first element of a
\* selector, in document order
ParagraphsIn(page, selector) ==
    LET inside == SelectSeq(page.paragraphs, LAMBDA p : p.container = selector)
    IN [k \in 1..Len(inside) |-> Strip(inside[k].text)]

\* lines 802-806: the first paragraph of the list that is long enough and a
\* description paragraph, <<>> if none is
FirstQualifying(texts) ==
    LET Q == {k \in 1..Len(texts) : CharLen(texts[k]) > 50 /\ IsDescriptionParagraph(texts[k])}
    IN IF Q = {} THEN <<>> ELSE texts[CHOOSE k \in Q : \A q \in Q : k <= q]

\* lines 797-806: the paragraph the main content gives, <<>> if none
RECURSIVE MainContent(_, _)
MainContent(page, selectors) ==
    IF selectors = <<>> THEN <<>>
    ELSE LET found == FirstQualifying(ParagraphsIn(page, Head(selectors)))
         IN IF found # <<>> THEN found ELSE MainContent(page, Tail(selectors))

\* lines 809-818: best_description after the loop over all paragraphs
RECURSIVE BestDescription(_, _, _)
BestDescription(paragraphs, company_name, best_description) ==
    IF paragraphs = <<>> THEN best_description
    ELSE LET text == Strip(Head(paragraphs).text)
         IN IF /\ IsDescriptionParagraph(text)
               /\ ScoreDescription(text, company_name) > 0
               /\ CharLen(text) > CharLen(best_description)
            THEN BestDescription(Tail(paragraphs), company_name, text)
            ELSE BestDescription(Tail(paragraphs), company_name, best_description)

\* whether _extract_main_description comes to its fallback
FallbackReached(page) ==
    ~MetaUsable(page.meta) /\ MainContent(page, main_content_selectors) = <<>>

\* _extract_main_description
ExtractMainDescription(page, company_name) ==
    IF MetaUsable(page.meta) THEN CleanSentence(Strip(page.meta))
    ELSE IF MainContent(page, main_content_selectors) # <<>>
         THEN CleanSentence(MainContent(page, main_content_selectors))
         ELSE LET best == BestDescription(page.paragraphs, company_name, <<>>)
              IN IF best # <<>> THEN CleanSentence(best) ELSE <<>>

\* ---------------------------------- specification: the description extractor

ParagraphTexts ==
    {<<"Acme", " ", "builds", " ", Filler>>,
     <<"Acme", " ", "builds", " ", "platform", " ", Filler, ".">>,
     <<Filler, " ", "platform", " ", Filler>>,
     <<"builds", " ", Filler, " ", "employees">>,
     <<"platform", " ", Filler, " ", "employees">>,
     <<"Acme", " ", "builds">>,
     <<"Acme", " ", "builds", " ", Filler, " ", "y combinator">>,
     <<" ", Filler, "\n", " ", Filler>>}

Containers == {"main", "section", "body"}

PageParagraphs == [text : ParagraphTexts, container : Containers]

ParagraphLists == UNION {[1..n -> PageParagraphs] : n \in 0..MaxParagraphs}

Metas ==
    {None, <<"Acme">>, <<"Home", " ", Filler>>, <<" ", "Acme", " ", "builds", " ", Filler, " ">>}

DescriptionInit ==
    /\ pc = "description"
    /\ config = DefaultConfig
    /\ Constructed
    /\ Writable
    /\ NoLinks
    /\ NoPage
    /\ NormIdle
    /\ extracted = <<>>
    /\ research = <<>>
    /\ \E meta \in Metas, paragraphs \in ParagraphLists :
          soup = [meta |-> meta, paragraphs |-> paragraphs, company_name |-> <<"Acme">>]

\* _extract_main_description on the parsed page
DescriptionExtract ==
    /\ pc = "description"
    /\ extracted = <<>>
    /\ extracted' = <<ExtractMainDescription(soup, soup.company_name)>>
    /\ UNCHANGED <<pc, config, envVars, script, scrollVars, pass1Vars, pass2Vars, dataVars,
                   norm, soup, research>>

DescriptionNext == DescriptionExtract

SpecDescription == DescriptionInit /\ [][DescriptionNext]_vars

\* ------------------------------------- CompanyResearcher.research_company

source_names ==
    <<"linkedin", "techcrunch", "crunchbase", "github", "npm", "web_presence",
      "social_media", "news">>

\* a Python dict, an exception object and asyncio.CancelledError (which is no
\* Exception), as values of the results list
Dict(items) == [type |-> "dict", items |-> items]
Exc(message) == [type |-> "Exception", message |-> message]
Cancelled == [type |-> "CancelledError"]

\* what the research task of a source returns when nothing fails in it (of
\* the keys of its dict, those the report reads or the task counts with):
\* crunchbase lines 400-410, social_media lines 937-944, news lines 1022-1027;
\* the news dict has no articles_found, which line 1238 reads
TaskResult(i) ==
    CASE source_names[i] = "linkedin" -> [found |-> TRUE]
      [] source_names[i] = "techcrunch" -> [articles_found |-> 2]
      [] source_names[i] = "crunchbase" -> [profile_found |-> FALSE]
      [] source_names[i] = "github" ->
            [organization_found |-> TRUE, total_stars |-> 150, public_repos |-> 3]
      [] source_names[i] = "npm" -> [packages_found |-> 1, total_downloads |-> 10]
      [] source_names[i] = "web_presence" -> [company_website |-> "https://acme.example"]
      [] source_names[i] = "social_media" ->
            [twitter_found |-> FALSE, linkedin_found |-> FALSE, facebook_found |-> FALSE,
             instagram_found |-> FALSE, youtube_found |-> FALSE]
      [] source_names[i] = "news" -> [total_mentions |-> 1, coverage_sentiment |-> "neutral"]

\* a mutation: the task lets the exception out
ErrorResultRaised(i, message) == Exc(message)

\* the "except Exception as e" that ends every _research_* method: what the
\* task returns when something raised in its body
ErrorResult(i, message) ==
    IF source_names[i] = "linkedin" THEN Dict([error |-> message, found |-> FALSE])
    ELSE Dict([error |-> message])

\* d.get(key, default)
Get(d, key, default) == IF key \in DOMAIN d THEN d[key] ELSE default

\* lines 77-82: what is stored for a source
Processed(result) ==
    IF result.type = "Exception" THEN Dict([error |-> result.message]) ELSE result

\* lines 1229-1237: what a source adds to online_presence_score
PresencePoints(source, data) ==
    IF data.type = "dict" /\ Get(data.items, "error", "") = ""
    THEN CASE source = "linkedin" /\ Get(data.items, "found", FALSE) = TRUE -> 2
           [] source = "github" /\ Get(data.items, "organization_found", FALSE) = TRUE -> 2
           [] source = "web_presence" /\ Get(data.items, "company_website", "") # "" -> 2
           [] source \in {"techcrunch", "news"} /\ Get(data.items, "articles_found", 0) > 0 -> 1
           [] source = "npm" /\ Get(data.items, "packages_found", 0) > 0 -> 1
           [] OTHER -> 0
    ELSE 0

RECURSIVE PresenceScore(_, _)
PresenceScore(sources, k) ==
    IF k = 0 THEN 0
    ELSE PresencePoints(source_names[k], sources[source_names[k]]) + PresenceScore(sources, k - 1)

\* the sources whose data _generate_insights reads with .get, which an
\* exception object does not have
ReadWithGet == {"github", "techcrunch", "crunchbase", "npm", "linkedin", "web_presence", "news"}

\* _generate_insights: whether it raises, and its overall assessment
GenerateInsights(sources) ==
    [raised |-> \E n \in ReadWithGet : sources[n].type # "dict",
     online_presence_score |-> PresenceScore(sources, Len(source_names)),
     data_completeness |->
        Cardinality({n \in DOMAIN sources :
                        ~(sources[n].type = "dict" /\ Get(sources[n].items, "error", "") # "")})]

\* lines 88-90: whether json.dump can write the sources
Serializable(sources) == \A n \in DOMAIN sources : sources[n].type = "dict"

NoReport == [sources |-> <<>>, insights |-> <<>>]

ResearchInit ==
    /\ pc = "research"
    /\ config = DefaultConfig
    /\ Constructed
    /\ Writable
    /\ NoLinks
    /\ NoPage
    /\ NormIdle
    /\ soup = <<>>
    /\ extracted = <<>>
    /\ research = [stage |-> "created",
                   tasks |-> [i \in 1..Len(source_names) |-> "pending"],
                   results |-> [i \in 1..Len(source_names) |-> Dict(<<>>)],
                   report |-> NoReport]

\* lines 59-73: the eight coroutines are handed to asyncio.gather together
ResearchStart ==
    /\ pc = "research"
    /\ research.stage = "created"
    /\ research' = [research EXCEPT !.stage = "gathering",
                                    !.tasks = [i \in 1..Len(source_names) |-> "running"]]
    /\ UNCHANGED <<pc, config, envVars, script, scrollVars, pass1Vars, pass2Vars, dataVars,
                   norm, soup, extracted>>

\* a research task returns its findings
TaskReturns ==
    /\ pc = "research"
    /\ research.stage = "gathering"
    /\ \E i \in 1..Len(source_names) :
          /\ research.tasks[i] = "running"
          /\ research' = [research EXCEPT !.tasks[i] = "returned",
                                          !.results[i] = Dict(TaskResult(i))]
    /\ UNCHANGED <<pc, config, envVars, script, scrollVars, pass1Vars, pass2Vars, dataVars,
                   norm, soup, extracted>>

\* something raises in the body of a research task: the task's own handler
\* logs it and returns an error entry
TaskFails ==
    /\ pc = "research"
    /\ research.stage = "gathering"
    /\ \E i \in 1..Len(source_names) :
          /\ research.tasks[i] = "running"
          /\ research' = [research EXCEPT !.tasks[i] = "failed",
                                          !.results[i] = ErrorResult(i, "boom")]
    /\ UNCHANGED <<pc, config, envVars, script, scrollVars, pass1Vars, pass2Vars, dataVars,
                   norm, soup, extracted>>

\* a research task is cancelled: gather puts its CancelledError in the results
TaskCancelled ==
    /\ pc = "research"
    /\ research.stage = "gathering"
    /\ \E i \in 1..Len(source_names) :
          /\ research.tasks[i] = "running"
          /\ research' = [research EXCEPT !.tasks[i] = "cancelled",
                                          !.results[i] = Cancelled]
    /\ UNCHANGED <<pc, config, envVars, script, scrollVars, pass1Vars, pass2Vars, dataVars,
                   norm, soup, extracted>>

\* lines 73-93: gather returns when every task is over; the results are
\* stored by source name, the insights are generated, the report is written
\* and returned
ResearchFinish ==
    /\ pc = "research"
    /\ research.stage = "gathering"
    /\ \A i \in 1..Len(source_names) : research.tasks[i] \in {"returned", "failed", "cancelled"}
    /\ LET sources == [n \in {source_names[i] : i \in 1..Len(source_names)} |->
                          Processed(research.results[
                              CHOOSE i \in 1..Len(source_names) : source_names[i] = n])]
           insights == GenerateInsights(sources)
           raises == insights.raised \/ ~Serializable(sources)
       IN research' = [research EXCEPT
                          !.stage = IF raises THEN "failed" ELSE "returned",
                          !.report = IF raises THEN NoReport
                                     ELSE [sources |-> sources, insights |-> insights]]
    /\ UNCHANGED <<pc, config, envVars, script, scrollVars, pass1Vars, pass2Vars, dataVars,
                   norm, soup, extracted>>

ResearchNext == ResearchStart \/ TaskReturns \/ TaskFails \/ TaskCancelled \/ ResearchFinish

SpecResearch == ResearchInit /\ [][ResearchNext]_vars

\* ------------------------------------------------------------------ claims

\* whether Pass 1 makes a record of the link when its url is new
Capturable(link) ==
    /\ link.text # None
    /\ ~IsNavigation(link.text)
    /\ link.href # None /\ link.href # <<>>
    /\ Normalize(link.href).accepted

\* the identity keys of the links of a list that Pass 1 does not skip
ExpectedKeys(links) ==
    {Normalize(links[k].href).url : k \in {n \in 1..Len(links) : Capturable(links[n])}}

PassesOver == pc \in {"pass2", "done"}

\* C1: at every moment of a run no two records of self.companies have the
\* same url.
IdentityUniqueness ==
    \A i, j \in 1..Len(companies) : i # j => companies[i].url # companies[j].url

\* C1 witness: a run is over in which two links of the list had the same
\* identity key and two records were captured.
IdentityUniquenessWitness ==
    /\ pc = "done"
    /\ Len(companies) >= 2
    /\ \E i, j \in 1..Len(company_links) :
          /\ i < j
          /\ Capturable(company_links[i]) /\ Capturable(company_links[j])
          /\ Normalize(company_links[i].href).url = Normalize(company_links[j].href).url

\* C2: after Pass 1 there are as many records as the scroll loop accumulated
\* distinct accepted links, on a page of ordinary company anchors, also when
\* the page unmounts anchors while it is scrolled.
CaptureCompleteness ==
    (PassesOver /\ \A k \in 1..Len(listing) : listing[k] \in {Acme, AcmeAbsolute, Bolt})
        => Len(companies) =
               Cardinality({Normalize(h).url : h \in {d \in discovered : Normalize(d).accepted}})

\* C3: after Pass 1 there is one record for each distinct accepted url among
\* the links that are not skipped as navigation labels (nor fail); the ten
\* links with two navigation labels and one duplicate give seven records.
CaptureCount ==
    PassesOver =>
        /\ Len(companies) = Cardinality(ExpectedKeys(company_links))
        /\ company_links = TenLinks => Len(companies) = 7

\* C3 witness: Pass 1 is over on the ten links.
CaptureCountWitness ==
    pc = "pass2" /\ company_links = TenLinks /\ Len(companies) = 7

\* C4: no step of a run makes self.companies shorter, and no step of Pass 2
\* changes its length.
RecordSetMonotone ==
    [][/\ Len(companies') >= Len(companies)
       /\ pc = "pass2" => Len(companies') = Len(companies)]_vars

\* C4 witness: a run is over that captured two records and failed to enrich one.
RecordSetMonotoneWitness ==
    /\ pc = "done"
    /\ Len(companies) >= 2
    /\ \E i \in 1..Len(outcomes) : outcomes[i] # "loaded"

\* the fields Pass 2 writes
EnrichmentOf(company) ==
    [description |-> company.description, founders |-> company.founders,
     summary |-> company.summary]

\* C5: when Pass 2 is over no record is as Pass 1 left it (empty description
\* and summary), and a record whose enrichment failed differs from every
\* record whose enrichment succeeded.
StatusReachability ==
    pc = "done" =>
        /\ \A i \in 1..Len(companies) :
              ~(companies[i].description = <<>> /\ companies[i].summary = <<>>)
        /\ \A i, j \in 1..Len(companies) :
              (outcomes[i] # "loaded" /\ outcomes[j] = "loaded")
                  => EnrichmentOf(companies[i]) # EnrichmentOf(companies[j])

\* C6: no step of Pass 2 replaces a non-empty name, description, summary,
\* founders or categories of a record by an empty value.
FieldNonRegression ==
    [][pc = "pass2" =>
          \A i \in 1..Len(companies) :
              \A f \in {"name", "description", "summary", "founders", "categories"} :
                  companies[i][f] # <<>> => companies'[i][f] # <<>>]_vars

\* C6 witness: enrichment results were merged into a record that had a name
\* and categories.
FieldNonRegressionWitness ==
    /\ pc = "pass2"
    /\ visited >= 1
    /\ companies[1].name # <<>> /\ companies[1].categories # <<>>
    /\ companies[1].description # <<>>

\* C7: normalizing the url that the normalization accepted accepts it and
\* returns it unchanged.
NormalizationIdempotent ==
    norm.stage = 2 => norm.second.accepted /\ norm.second.url = norm.first.url

\* C7 witness: an accepted raw href that the normalization had to change was
\* normalized twice.
NormalizationIdempotentWitness ==
    norm.stage = 2 /\ norm.raw # norm.first.url

\* C8: every anchor in the DOM whose href is a record url up to a query
\* string, a fragment or a trailing slash (and whose text Pass 1 does not
\* skip) has a record with that url after Pass 1.
AcceptsQueryFragmentSlash ==
    PassesOver =>
        \A k \in mounted :
            Capturable(listing[k]) =>
                \E i \in 1..Len(companies) :
                    companies[i].url = Normalize(listing[k].href).url

\* the places in the document of the mounted anchors with identity key url
PlacesOf(url) ==
    {k \in mounted : Capturable(listing[k]) /\ Normalize(listing[k].href).url = url}

FirstPlaceOf(url) == CHOOSE k \in PlacesOf(url) : \A n \in PlacesOf(url) : k <= n

\* C9 as claimed: the records of a run on a listing page are in the order in
\* which their links first occur on the page.
DiscoveryOrder ==
    (PassesOver /\ listing # <<>>) =>
        \A i, j \in 1..Len(companies) :
            i < j => /\ PlacesOf(companies[i].url) # {}
                     /\ PlacesOf(companies[j].url) # {}
                     /\ FirstPlaceOf(companies[i].url) < FirstPlaceOf(companies[j].url)

\* the identity key of each link of the list given to Pass 1 that Pass 1 does
\* not skip (None for a link it skips)
KeysOf(links) ==
    [k \in 1..Len(links) |->
        IF Capturable(links[k]) THEN Normalize(links[k].href).url ELSE None]

\* the places in a list of keys of the key url
LinksOf(keys, url) == {k \in 1..Len(keys) : keys[k] = url}

FirstLinkOf(keys, url) == CHOOSE k \in LinksOf(keys, url) : \A n \in LinksOf(keys, url) : k <= n

\* C9 as amended: there is one record for each identity key of the list given
\* to Pass 1, made when the first link of the list with that key was
\* processed and from that link's text; the records are in the order of these
\* first links in the list; and the records of a run on a listing page are in
\* ascending order of their urls.
UrlOrder ==
    PassesOver =>
        \E keys \in {KeysOf(company_links)} :
            /\ {companies[i].url : i \in 1..Len(companies)}
                  = {keys[k] : k \in 1..Len(keys)} \ {None}
            /\ \A i \in 1..Len(companies) :
                  /\ LinksOf(keys, companies[i].url) # {}
                  /\ \E first \in {FirstLinkOf(keys, companies[i].url)} :
                        /\ companies[i].scraped_at = first
                        /\ companies[i].name = ExtractBasicInfo(company_links[first].text).name
                        /\ companies[i].categories
                              = ExtractBasicInfo(company_links[first].text).categories
            /\ \A i, j \in 1..Len(companies) :
                  i < j => FirstLinkOf(keys, companies[i].url) < FirstLinkOf(keys, companies[j].url)
            /\ listing # <<>> =>
                  \A i, j \in 1..Len(companies) :
                     i < j => StrLess(companies[i].url, companies[j].url)

\* C9 witness: a run on a listing page is over with two records whose links
\* are in the other order on the page.
UrlOrderWitness ==
    /\ pc = "done"
    /\ Len(companies) = 2
    /\ PlacesOf(companies[1].url) # {}
    /\ PlacesOf(companies[2].url) # {}
    /\ FirstPlaceOf(companies[1].url) > FirstPlaceOf(companies[2].url)

\* the count was the same after each of the last required_stable_rounds rounds
UnchangedRounds ==
    /\ Len(history) = required_stable_rounds + 1
    /\ \A k \in 1..required_stable_rounds : history[k] = history[k + 1]

\* C10: the loop runs no further round once the count was unchanged for three
\* consecutive rounds, it ends converged only then, and on the long listing
\* it ends after the fifth round, converged, with ScenarioLinks links.
ConvergenceExact ==
    /\ (pc = "scroll" /\ UnchangedRounds) => ~ScrollContinues
    /\ (pc \in {"scroll", "scrolled"} /\ stable_rounds >= required_stable_rounds)
           => UnchangedRounds
    /\ (pc = "scrolled" /\ listing = LongListing)
           => /\ rounds = 5
              /\ Cardinality(discovered) = ScenarioLinks
              /\ stable_rounds >= required_stable_rounds

\* C10 witness: the loop ended on the long listing.
ConvergenceExactWitness ==
    pc = "scrolled" /\ listing = LongListing /\ UnchangedRounds

\* C11: the scroll loop never runs more than scroll_timeout rounds, whatever
\* the heights of the page.
ScrollRoundsBounded ==
    (config = DefaultConfig /\ pc \in {"scroll", "scrolled"})
        => rounds <= config.scroll_timeout

\* C12 as claimed: after a failure raised while scrolling the run goes on to
\* collect the links and to Pass 1 and Pass 2.
ScrollFailureRecovered ==
    scroll_error => pc \in {"scrolled", "pass1", "pass2", "done"}

\* C12 as amended: a failure raised while scrolling ends the run: no link is
\* collected, no record is captured or visited, no progress file is written,
\* and the statistics get their end time.
ScrollFailureAborts ==
    scroll_error =>
        /\ pc = "failed"
        /\ company_links = <<>> /\ link_i = 0
        /\ companies = <<>> /\ visited = 0
        /\ saves = 0
        /\ session_stats.ended

\* C12 witness: the scroll loop raised after it had found links.
ScrollFailureAbortsWitness ==
    scroll_error /\ pc = "failed" /\ seen_hrefs # {} /\ rounds >= 1

\* C13 as claimed: a step of Pass 1 that counts an error for its link adds no
\* record.
LinkErrorNoRecord ==
    [][(pc = "pass1" /\ session_stats'.errors # session_stats.errors)
          => companies' = companies]_vars

\* C13 as amended: a step of Pass 1 that counts an error counts one, for one
\* link, stays in Pass 1 and changes no record captured earlier; it adds no
\* record when the link's text cannot be read, and otherwise it is a capture
\* whose progress write was due and raised: the link's record is appended and
\* counted as a capture, the write is not counted, and the csv progress file
\* is as it was or holds the records with the new one.  Pass 1 ends only when
\* every link of the list has been processed.
LinkErrorIsolated ==
    [][/\ (pc = "pass1" /\ link_i' = link_i + 1 /\ company_links[link_i + 1].text = None)
           => /\ session_stats'.errors = session_stats.errors + 1
              /\ companies' = companies
              /\ pc' = "pass1"
       /\ (pc = "pass1" /\ session_stats'.errors # session_stats.errors)
           => /\ session_stats'.errors = session_stats.errors + 1
              /\ link_i' = link_i + 1
              /\ pc' = "pass1"
              /\ SubSeq(companies', 1, Len(companies)) = companies
              /\ \/ /\ company_links[link_i'].text = None
                    /\ companies' = companies
                 \/ /\ Capturable(company_links[link_i'])
                    /\ companies' =
                          Append(companies,
                                 BasicCompanyData(company_links[link_i'].text,
                                                  Normalize(company_links[link_i'].href).url,
                                                  link_i'))
                    /\ SaveDue(Len(companies'), config.progress_save_interval)
                    /\ session_stats'.successful_captures
                          = session_stats.successful_captures + 1
                    /\ checkpoint' \in {checkpoint, companies'}
                    /\ saves' = saves
       /\ (pc = "pass1" /\ pc' # "pass1") => link_i = Len(company_links)]_vars

\* C13 witness: Pass 1 is over on a list in which a link that raised stands
\* between two links that were captured, the second with a progress write
\* that raised.
LinkErrorIsolatedWitness ==
    /\ pc = "pass2"
    /\ visited = 0
    /\ \E k \in 1..Len(company_links) :
          /\ company_links[k].text = None
          /\ \E i, j \in 1..Len(companies) :
                companies[i].scraped_at < k /\ k < companies[j].scraped_at
    /\ Len(companies) = 2
    /\ session_stats.successful_captures = 2
    /\ session_stats.errors = 2
    /\ saves = 0

\* the links of a list that Pass 1 rejects for their navigation label
NavigationLinks(links) ==
    {k \in 1..Len(links) : links[k].text # None /\ IsNavigation(links[k].text)}

\* the links of a list that Pass 1 cannot process: the text cannot be read,
\* or there is no href
UnprocessableLinks(links) ==
    {k \in 1..Len(links) :
        \/ links[k].text = None
        \/ ~IsNavigation(links[k].text) /\ (links[k].href = None \/ links[k].href = <<>>)}

\* C14: after Pass 1 the skipped counter of the session is the number of
\* links rejected for their navigation label, and every link that could not
\* be processed is counted in the session's errors.
SkippedIsNavigationOnly ==
    pc = "pass2" =>
        /\ session_stats.skipped = Cardinality(NavigationLinks(company_links))
        /\ session_stats.errors >= Cardinality(UnprocessableLinks(company_links))

\* the visits of Pass 2 that failed
FailedVisits == {i \in 1..Len(outcomes) : outcomes[i] # "loaded"}

\* C15: when Pass 2 is over, successful_enrichments is the number of records
\* whose detail page was loaded and extracted, and the session error counter
\* has one error for each link that raised in Pass 1 and one for each record
\* whose enrichment failed.
EnrichmentFailuresCounted ==
    pc = "done" =>
        /\ session_stats.successful_enrichments = Len(outcomes) - Cardinality(FailedVisits)
        /\ session_stats.errors =
               Cardinality({k \in 1..Len(company_links) : company_links[k].text = None})
                   + Cardinality(FailedVisits)

\* C16: the visit of a record whose detail-page navigation times out finds
\* its description empty, leaves "Description not available" and "Summary not
\* available" in it, and marks it as a failed enrichment: the visit is counted
\* as an error and not as a successful enrichment.
TimeoutSentinels ==
    [][(pc = "pass2" /\ visited' = visited + 1 /\ outcomes'[visited'] = "timeout")
          => /\ companies[visited'].description = <<>>
             /\ companies'[visited'].description = DescriptionNotAvailable
             /\ companies'[visited'].summary = SummaryNotAvailable
             /\ session_stats'.errors = session_stats.errors + 1
             /\ session_stats'.successful_enrichments
                    = session_stats.successful_enrichments]_vars

\* C17: a visit of Pass 2 that fails changes no other record and does not
\* end the pass, and the pass ends only when every record has been visited.
FailureIsolated ==
    [][/\ (pc = "pass2" /\ visited' = visited + 1 /\ outcomes'[visited'] # "loaded")
           => /\ pc' = "pass2"
              /\ Len(companies') = Len(companies)
              /\ \A j \in 1..Len(companies) :
                    j # visited' => companies'[j] = companies[j]
       /\ (pc = "pass2" /\ pc' = "done") => visited = Len(companies)]_vars

\* C17 witness: a run is over in which the first visit failed and the second
\* record of its chunk and a record of a later chunk were loaded.
FailureIsolatedWitness ==
    /\ pc = "done"
    /\ config.chunk_size = 2
    /\ Len(outcomes) >= 3
    /\ outcomes[1] # "loaded" /\ outcomes[2] = "loaded" /\ outcomes[3] = "loaded"
    /\ companies[2].description # DescriptionNotAvailable
    /\ companies[3].description # DescriptionNotAvailable

\* C18 as claimed: the visit of a record at which the founder extractor
\* raises after the description was extracted leaves the extracted
\* description in the record, and the sentinel only in the summary, which
\* was not extracted.
PartialFieldsKept ==
    [][(pc = "pass2" /\ visited' = visited + 1 /\ outcomes'[visited'] = "raised")
          => /\ companies'[visited'].description = BrokenPage.description
             /\ companies'[visited'].summary = SummaryNotAvailable]_vars

\* C18 as amended: the visit of a record at which the founder extractor
\* raises after the description was extracted keeps nothing of what was
\* extracted: description and summary get their sentinels, founders stays
\* empty, and the fields of Pass 1 are unchanged.
PartialFieldsDropped ==
    [][(pc = "pass2" /\ visited' = visited + 1 /\ outcomes'[visited'] = "raised")
          => /\ companies'[visited'].description = DescriptionNotAvailable
             /\ companies'[visited'].summary = SummaryNotAvailable
             /\ companies'[visited'].founders = <<>>
             /\ \A f \in {"name", "categories", "url", "scraped_at"} :
                   companies'[visited'][f] = companies[visited'][f]]_vars

\* C18 witness: a record of a page whose founder extractor raised, with the
\* name of Pass 1 and the sentinel as description.
PartialFieldsDroppedWitness ==
    /\ pc = "pass2"
    /\ \E i \in 1..Len(outcomes) :
          /\ outcomes[i] = "raised"
          /\ companies[i].name # <<>>
          /\ companies[i].description = DescriptionNotAvailable

\* what is left of Pass 2: the chunks to finish and the records to visit
RemainingWork ==
    IF pc = "pass2"
    THEN (counts.total_chunks - counts.chunk_num) + (Len(companies) - visited) + 1
    ELSE 0

\* C19: Pass 2 terminates (while it runs a step is possible, and every step
\* makes the remaining work smaller), every visit is the visit of the next
\* record, never of a record visited before, and when Pass 2 ends every
\* record has been visited.
EveryRecordVisitedOnce ==
    /\ [](pc = "pass2" => ENABLED (EnrichRecord \/ FinishChunk \/ FinishRun))
    /\ [][/\ pc = "pass2" => (RemainingWork' < RemainingWork /\ RemainingWork' >= 0)
          /\ (pc = "pass2" /\ visited' # visited)
                 => /\ visited' = visited + 1
                    /\ visited' <= Len(companies)
                    /\ Len(outcomes') = visited'
          /\ (pc = "pass2" /\ pc' = "done")
                 => /\ visited = Len(companies)
                    /\ Len(outcomes) = Len(companies)]_vars

\* C19 witness: Pass 2 is over after several chunks, with a visit that failed.
EveryRecordVisitedOnceWitness ==
    /\ pc = "done"
    /\ counts.total_chunks >= 2
    /\ Len(outcomes) = Len(companies)
    /\ \E i \in 1..Len(outcomes) : outcomes[i] = "timeout"

\* a step of Pass 1 that captures a record and brings the number of captures
\* to a multiple of progress_save_interval
CaptureCompletesInterval ==
    /\ pc = "pass1"
    /\ Len(companies') = Len(companies) + 1
    /\ Len(companies') % config.progress_save_interval = 0

\* a step of Pass 2 that ends a chunk
ChunkEnds == pc = "pass2" /\ counts'.chunk_num = counts.chunk_num + 1

\* C20: a step writes the progress file exactly when it is a capture of Pass 1
\* that brings the capture count to a multiple of progress_save_interval or
\* the end of a chunk of Pass 2; it writes it once, with the records as they
\* are; Pass 2 has ceil(n / chunk_size) chunks for n records.
CheckpointMoments ==
    [][/\ (saves' # saves) <=> (CaptureCompletesInterval \/ ChunkEnds)
       /\ (saves' # saves) => (saves' = saves + 1 /\ checkpoint' = companies')
       /\ (saves' = saves) => checkpoint' = checkpoint
       /\ (pc = "pass2" /\ pc' = "done")
              => saves = (Len(companies) \div config.progress_save_interval)
                         + ((Len(companies) + config.chunk_size - 1) \div config.chunk_size)]_vars

\* C20 witness: a run is over that wrote the progress file three times in
\* Pass 1 and four times in Pass 2.
CheckpointMomentsWitness ==
    /\ pc = "done"
    /\ Len(companies) = 7
    /\ config.progress_save_interval = 2 /\ config.chunk_size = 2
    /\ saves = 7
    /\ checkpoint = companies

\* C21: a step that writes the progress file leaves in it exactly the records
\* in memory after the step, and these include, at the same places, every
\* record (by url) that the file held before; the file never holds a record
\* that is not in memory.
CheckpointIsMemory ==
    [][/\ (saves' # saves)
           => /\ checkpoint' = companies'
              /\ Len(checkpoint') >= Len(checkpoint)
              /\ \A i \in 1..Len(checkpoint) : checkpoint'[i].url = checkpoint[i].url
       /\ Len(checkpoint') <= Len(companies')
       /\ \A i \in 1..Len(checkpoint') : checkpoint'[i].url = companies'[i].url]_vars

\* C21 witness: the progress file was written over an earlier, shorter one.
CheckpointIsMemoryWitness ==
    /\ pc = "pass1"
    /\ saves = 2
    /\ Len(checkpoint) = 4
    /\ checkpoint = companies

\* C22: when Pass 2 is about to make its first navigation, the progress file
\* holds every record captured in Pass 1.
PersistedBeforeEnrichment ==
    (pc = "pass2" /\ visited = 0) => checkpoint = companies

\* C23: a Pass 2 navigation happens only after Pass 1 has processed its last
\* link; it visits the next record in record-set order, inside the current
\* chunk, one record per step, changes no other record and writes no progress
\* file; a progress write in Pass 2 changes no record and visits none.
PassesSequential ==
    [][/\ (visited' # visited)
           => /\ link_i = Len(company_links)
              /\ pc = "pass2"
              /\ visited' = visited + 1
              /\ Len(outcomes') = visited'
              /\ (visited' - 1) \div config.chunk_size = counts.chunk_num
              /\ Len(companies') = Len(companies)
              /\ \A k \in (1..Len(companies)) \ {visited'} : companies'[k] = companies[k]
              /\ saves' = saves
              /\ checkpoint' = checkpoint
       /\ (pc = "pass2" /\ saves' # saves)
           => /\ companies' = companies
              /\ visited' = visited]_vars

\* C23 witness: Pass 2 is in its second chunk, after a progress write.
PassesSequentialWitness ==
    /\ pc = "pass2"
    /\ config.chunk_size = 2
    /\ counts.chunk_num = 1
    /\ visited = 4
    /\ link_i = Len(company_links)
    /\ checkpoint # companies

\* C24: when the browser session cannot be constructed the run ends there, out
\* of scrape_companies: nothing was scrolled, collected, captured or written,
\* and the session statistics have their end time.
BrowserFailurePropagates ==
    pc = "no_browser"
    => /\ session_stats.ended
       /\ companies = <<>>
       /\ company_links = <<>>
       /\ rounds = 0
       /\ saves = 0
       /\ checkpoint = <<>>
       /\ session_stats.successful_captures = 0
       /\ session_stats.total_processed = 0
       /\ ~ scroll_error
       /\ ~ ENABLED (OpenListing \/ ScrollBegin \/ ScrollFails \/ CaptureLink \/ FinishRun)

\* C24 witness: the run ended in the browser setup.
BrowserFailurePropagatesWitness ==
    /\ pc = "no_browser"
    /\ session_stats.ended
    /\ listing # <<>>

\* two founder anchors of the page whose urls differ at most in letter case,
\* trailing slash, scheme, www., query or fragment (profile is the slug the
\* href was written for, one of the two spellings of ProfileSlugs)
FounderPair(i, j) ==
    /\ i < j
    /\ soup.anchors[i].profile # ""
    /\ soup.anchors[j].profile # ""

\* the entries returned under a set of profile urls
EntriesFor(keys) == {k \in 1..Len(extracted[1]) : extracted[1][k].linkedin_url \in keys}

\* C25 as claimed: two founder anchors whose urls differ only in letter case,
\* trailing slash, scheme, query or fragment give exactly one entry.
FounderDedupOneEntry ==
    (pc = "founders" /\ extracted # <<>>)
    => \A i, j \in 1..Len(soup.anchors) :
          FounderPair(i, j)
          => Cardinality(EntriesFor({ProfileKey(g) : g \in ProfileSlugs})) = 1

\* the paragraphs of the page that are above the minimum length and score
\* above zero
Scored ==
    {k \in 1..Len(soup.paragraphs) :
        /\ IsDescriptionParagraph(Strip(soup.paragraphs[k].text))
        /\ ScoreDescription(Strip(soup.paragraphs[k].text), soup.company_name) > 0}

\* C26: in the scored fallback the paragraph returned is one with the highest
\* score among the paragraphs above the minimum length.
HighestScoreWins ==
    (pc = "description" /\ extracted # <<>> /\ FallbackReached(soup) /\ Scored # {})
    => \E k \in Scored :
          /\ extracted[1] = CleanSentence(Strip(soup.paragraphs[k].text))
          /\ \A q \in Scored :
                ScoreDescription(Strip(soup.paragraphs[q].text), soup.company_name)
                   <= ScoreDescription(Strip(soup.paragraphs[k].text), soup.company_name)

\* C27: the eight tasks are started together and all are waited for; whatever
\* subset of them fails, research_company returns a report unless a task was
\* cancelled, and the sources of the report are exactly the eight source
\* names, with the error entry of each task that failed and the task's own
\* result for each that succeeded, and the insights are generated, counting
\* the sources without error.
ResearchTolerant ==
    pc = "research"
    => /\ research.stage = "failed"
            => \E i \in 1..Len(source_names) : research.tasks[i] = "cancelled"
       /\ research.stage = "gathering"
            => \A i \in 1..Len(source_names) : research.tasks[i] # "pending"
       /\ research.stage = "created"
            => \A i \in 1..Len(source_names) : research.tasks[i] = "pending"
       /\ research.stage = "returned"
            => /\ DOMAIN research.report.sources = {source_names[i] : i \in 1..Len(source_names)}
               /\ Cardinality(DOMAIN research.report.sources) = 8
               /\ \A i \in 1..Len(source_names) :
                     /\ research.tasks[i] \in {"returned", "failed"}
                     /\ research.report.sources[source_names[i]] = research.results[i]
                     /\ research.tasks[i] = "failed"
                          => /\ research.results[i].type = "dict"
                             /\ Get(research.results[i].items, "error", "") = "boom"
                             /\ DOMAIN research.results[i].items
                                   = IF source_names[i] = "linkedin" THEN {"error", "found"}
                                     ELSE {"error"}
                     /\ research.tasks[i] = "returned"
                          => research.results[i] = Dict(TaskResult(i))
               /\ ~research.report.insights.raised
               /\ research.report.insights.data_completeness
                     = Cardinality({i \in 1..Len(source_names) : research.tasks[i] = "returned"})

\* C27 witness: a report was returned although the linkedin, github and news
\* tasks failed.
ResearchTolerantWitness ==
    /\ pc = "research"
    /\ research.stage = "returned"
    /\ research.tasks[1] = "failed"
    /\ research.tasks[4] = "failed"
    /\ research.tasks[8] = "failed"
    /\ research.tasks[2] = "returned"
    /\ research.report.sources["github"] = Dict([error |-> "boom"])
    /\ research.report.sources["linkedin"] = Dict([error |-> "boom", found |-> FALSE])
    /\ research.report.sources["techcrunch"] = Dict([articles_found |-> 2])

\* what the scroll loop has left to do: three rounds for every link short of
\* target_companies, less the stable rounds counted
ScrollMeasure == 3 * (config.target_companies - Cardinality(seen_hrefs)) - stable_rounds

\* C28: a round of the scroll loop starts only while the link count is below
\* target_companies and the stable-round counter below 3; it never lowers the
\* link count, it either raises the count or adds one to the stable-round
\* counter; the loop ends with the round in which the count reaches
\* target_companies and goes on after every other round; every round lowers a
\* positive measure, so the loop ends after at most 3 * target_companies
\* rounds.
ScrollTerminates ==
    [][(rounds' # rounds)
        => /\ stable_rounds < required_stable_rounds
           /\ Cardinality(seen_hrefs) < config.target_companies
           /\ seen_hrefs \subseteq seen_hrefs'
           /\ \/ Cardinality(seen_hrefs') > Cardinality(seen_hrefs)
              \/ stable_rounds' = stable_rounds + 1
           /\ (Cardinality(seen_hrefs') >= config.target_companies)
                 => (pc' = "scrolled" /\ discovered' = seen_hrefs')
           /\ (Cardinality(seen_hrefs') < config.target_companies) => pc' = "scroll"
           /\ ScrollMeasure > 0
           /\ ScrollMeasure' < ScrollMeasure
           /\ rounds' = rounds + 1
           /\ rounds' + ScrollMeasure' <= 3 * config.target_companies
           /\ rounds' <= 3 * config.target_companies]_vars

\* C28 witness: the loop ended because the count reached target_companies,
\* in the last round that the bound allows.
ScrollTerminatesWitness ==
    /\ pc = "scrolled"
    /\ ~ scroll_error
    /\ rounds = 3 * config.target_companies
    /\ Cardinality(discovered) >= config.target_companies
    /\ stable_rounds = 0

\* C29: after Pass 1 every link given to it is in exactly one session counter:
\* successful_captures + skipped + errors is the number of links, and
\* total_processed, successful_captures and the number of records are equal.
EveryLinkCounted ==
    (pc = "pass2" /\ visited = 0)
    => /\ session_stats.successful_captures + session_stats.skipped + session_stats.errors
             = Len(company_links)
       /\ session_stats.total_processed = session_stats.successful_captures
       /\ session_stats.successful_captures = Len(companies)

\* the fields of a record that Pass 2 has no business with
Identity(record) ==
    [url |-> record.url, name |-> record.name, categories |-> record.categories,
     scraped_at |-> record.scraped_at]

\* C30: no step of Pass 2, of a successful or a failed enrichment, changes the
\* url, name, categories or scraped_at of any record, or the fields a record
\* has; only description, founders and summary change.
EnrichmentFrame ==
    [][pc = "pass2"
        => /\ Len(companies') = Len(companies)
           /\ \A i \in 1..Len(companies) :
                 /\ Identity(companies'[i]) = Identity(companies[i])
                 /\ DOMAIN companies'[i] = DOMAIN companies[i]
                 /\ \A f \in DOMAIN companies[i] :
                       companies'[i][f] # companies[i][f]
                          => f \in {"description", "founders", "summary"}]_vars

\* C30 witness: Pass 2 is over after a successful and a failed enrichment,
\* which both changed their record.
EnrichmentFrameWitness ==
    /\ pc = "done"
    /\ Len(companies) >= 2
    /\ outcomes[1] = "loaded"
    /\ outcomes[2] = "timeout"
    /\ companies[1].description \notin {<<>>, DescriptionNotAvailable}
    /\ companies[2].description = DescriptionNotAvailable
    /\ companies[1].scraped_at # companies[2].scraped_at

====
